---------------------------- MODULE Spec2Model ----------------------------
(***************************************************************************)
(* State-machine model of market-maker-rs.                                 *)
(*                                                                         *)
(*   Order manager      src/src/execution/order_manager.rs                 *)
(*   Thread-safe wrapper (RwLock) of the order manager, same file          *)
(*   Alert manager      src/src/risk/alerts.rs                             *)
(*                                                                         *)
(* Decimal quantities and prices are exact integers in lot / tick units;   *)
(* the volume-weighted average price is a Decimal kept in units of         *)
(* 1/DecScale and every division rounds to that precision.                 *)
(***************************************************************************)
EXTENDS Integers, Sequences, FiniteSets, TLC

(***************************************************************************)
(* Bounds of the model.                                                    *)
(***************************************************************************)
\* timestamps passed by callers range over 0..MaxTime
MaxTime == 2
\* record_fill is not offered to an order that already holds MaxFills fills
MaxFills == 2
\* register_order is not offered for a symbol whose open list holds MaxOpenList ids
MaxOpenList == 2
\* add_handler is not offered to a manager that holds MaxHandlers handlers
MaxHandlers == 1
\* no alert is raised once ALERT_COUNTER has reached MaxAlerts
MaxAlerts == 2
\* where handlers of several thresholds are followed, add_handler is not offered
\* to a manager that holds MaxDispatchHandlers handlers
MaxDispatchHandlers == 2

Times == 0..MaxTime

(***************************************************************************)
(* Input alphabets.                                                        *)
(***************************************************************************)
ClientIds == {"c1", "c2"}
ExchangeIds == {"e1", "e2"}
Symbols == {"BTC-USD", "ETH-USD"}

\* OrderRequest values handed to register_order (limit orders, price set)
Requests ==
    { [symbol |-> "BTC-USD", side |-> "Buy", order_type |-> "Limit", price |-> 1, quantity |-> 2],
      [symbol |-> "BTC-USD", side |-> "Sell", order_type |-> "Limit", price |-> 2, quantity |-> 1],
      [symbol |-> "ETH-USD", side |-> "Buy", order_type |-> "Limit", price |-> 1, quantity |-> 2] }

\* precision of a Decimal quotient (units per 1)
DecScale == 100

(***************************************************************************)
(* OrderStatus (execution::connector, re-exported by execution/mod.rs).    *)
(***************************************************************************)
Pending == [kind |-> "Pending"]
Open(f) == [kind |-> "Open", filled_qty |-> f]
PartiallyFilled(f, r) == [kind |-> "PartiallyFilled", filled_qty |-> f, remaining_qty |-> r]
Filled(f, p) == [kind |-> "Filled", filled_qty |-> f, avg_price |-> p]
Cancelled(f) == [kind |-> "Cancelled", filled_qty |-> f]
Rejected(why) == [kind |-> "Rejected", reason |-> why]

status_is_open(s) == s.kind \in {"Open", "PartiallyFilled"}

status_is_terminal(s) == s.kind \in {"Filled", "Cancelled", "Rejected"}

\* statuses an exchange response may carry into update_order
ResponseStatuses ==
    { Pending, Open(0), PartiallyFilled(1, 1), Filled(2, DecScale), Cancelled(0),
      Rejected("rejected") }

Responses == [order_id : ExchangeIds, status : ResponseStatuses]

\* fills reported by the exchange; an order id no acknowledgement has installed
\* (here a client id) is among them
FillPrices == {1, 2}
FillQuantities == {1, 2}
Fills == [order_id : ExchangeIds \cup {"c1"}, price : FillPrices, quantity : FillQuantities]

\* the alphabets of the specification that follows one order in depth
DepthRequests == { r \in Requests : r.side = "Buy" }
DepthResponses == Responses
DepthFills == Fills
DepthTimes == {0}

\* the alphabets of the specification that follows two orders side by side
BookRequests == Requests
\* each client's order is acknowledged as open under an exchange id of its own
BookAcks ==
    { <<"c1", [order_id |-> "e1", status |-> Open(0)]>>,
      <<"c2", [order_id |-> "e2", status |-> Open(0)]>> }
BookFills == { f \in Fills : f.price = 1 /\ f.quantity = 1 /\ f.order_id \in ExchangeIds }
BookTimes == {0, 1}
BookLaterTimes == {1}

(***************************************************************************)
(* Configurations the manager is constructed with.                         *)
(***************************************************************************)
\* OrderManagerConfig::default()
OrderManagerConfig_default ==
    [order_timeout_ms |-> 0, max_open_orders |-> 0, detect_duplicates |-> TRUE]

Configs ==
    { OrderManagerConfig_default,
      [order_timeout_ms |-> 1, max_open_orders |-> 1, detect_duplicates |-> TRUE],
      [order_timeout_ms |-> 1, max_open_orders |-> 0, detect_duplicates |-> FALSE] }

BookConfigs == { c \in Configs : c.detect_duplicates }

VARIABLES
    config,                 \* OrderManager.config
    orders,                 \* OrderManager.orders: client id -> ManagedOrder
    orders_by_exchange_id,  \* OrderManager.orders_by_exchange_id: exchange id -> client id
    open_orders_by_symbol   \* OrderManager.open_orders_by_symbol: symbol -> Vec of client ids

omVars == <<config, orders, orders_by_exchange_id, open_orders_by_symbol>>

\* ThreadSafeOrderManager: the threads holding a clone of the handle and the
\* RwLock around the manager above
VARIABLES
    pc,            \* thread -> where it stands in its call
    call,          \* thread -> the call it is making
    target,        \* thread -> the manager its write leaves when it returns
    lock_writer,   \* RwLock: the threads holding the write guard
    lock_readers,  \* RwLock: the threads holding a read guard
    committed,     \* the manager left by the writes that have returned, in order
    observed       \* thread -> what its read has seen so far

tsVars == <<pc, call, target, lock_writer, lock_readers, committed, observed>>

\* AlertManager, and the process-wide counter that numbers the alerts
VARIABLES
    handlers,         \* AlertManager.handlers
    alert_history,    \* AlertManager.alert_history
    max_history,      \* AlertManager.max_history
    dedup_window_ms,  \* AlertManager.dedup_window_ms
    recent_alerts,    \* AlertManager.recent_alerts: type key -> time of the last stored raise
    ALERT_COUNTER     \* static ALERT_COUNTER

amVars == <<handlers, alert_history, max_history, dedup_window_ms, recent_alerts, ALERT_COUNTER>>

\* threads that build alerts with Alert::new, each for a manager of its own
VARIABLES
    new_pc,       \* thread -> where it stands in Alert::new
    new_call,     \* thread -> the arguments of its call and the counter it has drawn
    made          \* thread -> the alerts its calls have returned, in order

newVars == <<new_pc, new_call, made>>

\* a RiskLimits and one call of check_order on it
VARIABLES
    limits,       \* the RiskLimits: max_position, max_notional, scaling_factor
    check_args,   \* current_position, order_size and price of the call
    check_pc,     \* "called" until check_order has returned, then "returned"
    check_result  \* what check_order returned

riskVars == <<limits, check_args, check_pc, check_result>>

\* a BacktestEngine, the run of it that is in progress, and what runs returned
VARIABLES
    engine,       \* the BacktestEngine: config, strategy, data_source and its books
    run,          \* run_with_progress: whether it is running, and its locals
    results       \* the BacktestResults returned so far, oldest first

backtestVars == <<engine, run, results>>

\* one LiveMetrics shared by threads, and the call each thread is in
VARIABLES
    metrics,      \* the atomics and the locked Decimals of the LiveMetrics
    mcall,        \* thread -> the call it is in, how far it is, what it has read
    seen,         \* thread -> the states metrics has been in since its snapshot began
    issued        \* what the calls begun so far add up to

metricsVars == <<metrics, mcall, seen, issued>>

\* a CorrelationMatrix and the outcome of the last set_correlation on it
VARIABLES
    correlation_matrix,   \* assets, correlations (the upper triangle, row by row), last_update
    set_result            \* "Ok" or "Err", what the last set_correlation returned

correlationVars == <<correlation_matrix, set_result>>

\* a GridStrategy and the grid it generated last
VARIABLES
    grid,         \* the GridStrategy: config and reference_price
    grid_orders   \* the Vec<GridOrder> of the last generate_grid

gridVars == <<grid, grid_orders>>

\* one caller of the GLFTStrategy calculators, one call at a time
VARIABLES
    glft_config,   \* the GLFTConfig
    glft_args,     \* the arguments of the call, or NoGLFTCall between calls
    glft_result    \* what the call returned

glftVars == <<glft_config, glft_args, glft_result>>

\* the RwLock of a ThreadSafeOrderManager under closures that may fail, and
\* one call of calculate_skew_adjustment
VARIABLES
    poisoned,      \* the lock's poison flag
    write_guard,   \* the threads holding the write guard (at most one)
    access,        \* how each thread's last read or write ended
    skew_args,     \* the arguments of the call of calculate_skew_adjustment
    skew_result    \* what it returned

boundaryVars == <<poisoned, write_guard, access, skew_args, skew_result>>

\* everything but one component's own variables
notOM == <<tsVars, amVars, newVars, riskVars, backtestVars, metricsVars, correlationVars, gridVars, glftVars, boundaryVars>>
notTS == <<amVars, newVars, riskVars, backtestVars, metricsVars, correlationVars, gridVars, glftVars, boundaryVars>>
notAM == <<omVars, tsVars, newVars, riskVars, backtestVars, metricsVars, correlationVars, gridVars, glftVars, boundaryVars>>
notNew == <<omVars, tsVars, handlers, alert_history, max_history, dedup_window_ms, recent_alerts, riskVars, backtestVars, metricsVars, correlationVars, gridVars, glftVars, boundaryVars>>
notRisk == <<omVars, tsVars, amVars, newVars, backtestVars, metricsVars, correlationVars, gridVars, glftVars, boundaryVars>>

notBacktest == <<omVars, tsVars, amVars, newVars, riskVars, metricsVars, correlationVars, gridVars, glftVars, boundaryVars>>

notMetrics == <<omVars, tsVars, amVars, newVars, riskVars, backtestVars, correlationVars, gridVars, glftVars, boundaryVars>>

notCorrelation == <<omVars, tsVars, amVars, newVars, riskVars, backtestVars, metricsVars, gridVars, glftVars, boundaryVars>>

notGrid == <<omVars, tsVars, amVars, newVars, riskVars, backtestVars, metricsVars, correlationVars, glftVars, boundaryVars>>

notGLFT == <<omVars, tsVars, amVars, newVars, riskVars, backtestVars, metricsVars, correlationVars, gridVars, boundaryVars>>

notBoundary == <<omVars, tsVars, amVars, newVars, riskVars, backtestVars, metricsVars, correlationVars, gridVars, glftVars>>

vars == <<omVars, tsVars, amVars, newVars, riskVars, backtestVars, metricsVars, correlationVars, gridVars, glftVars, boundaryVars>>

(***************************************************************************)
(* Helpers for HashMap and Vec.                                            *)
(***************************************************************************)
MapInsert(m, k, v) == [x \in DOMAIN m \cup {k} |-> IF x = k THEN v ELSE m[x]]

MapRemove(m, k) == [x \in DOMAIN m \ {k} |-> m[x]]

EmptyMap == [x \in {} |-> 0]

SeqCount(s, c) == Cardinality({i \in 1..Len(s) : s[i] = c})

SeqElems(s) == {s[i] : i \in 1..Len(s)}

SaturatingSub(a, b) == IF a >= b THEN a - b ELSE 0

\* Decimal division of n by a positive d, rounded half away from zero
AbsInt(n) == IF n < 0 THEN 0 - n ELSE n

DecDiv(n, d) ==
    LET q == (2 * AbsInt(n) + d) \div (2 * d)
    IN  IF n < 0 THEN 0 - q ELSE q

(***************************************************************************)
(* ManagedOrder.                                                           *)
(***************************************************************************)
ManagedOrder_new(order_id, client_order_id, symbol, side, order_type, price, quantity, timestamp) ==
    [ order_id |-> order_id,
      client_order_id |-> client_order_id,
      symbol |-> symbol,
      side |-> side,
      order_type |-> order_type,
      original_price |-> price,
      original_quantity |-> quantity,
      filled_quantity |-> 0,
      remaining_quantity |-> quantity,
      average_fill_price |-> 0,
      status |-> Pending,
      created_at |-> timestamp,
      updated_at |-> timestamp,
      fills |-> << >> ]

is_pending(order) == order.status.kind = "Pending"

is_open(order) == status_is_open(order.status)

is_terminal(order) == status_is_terminal(order.status)

age_ms(order, current_time) == SaturatingSub(current_time, order.created_at)

\* a plausible slip: the remaining quantity is taken from this fill alone
ManagedOrder_record_fill_ForgetsEarlierFills(order, fill, timestamp) ==
    LET new_filled == order.filled_quantity + fill.quantity
        old_value == order.average_fill_price * order.filled_quantity
        new_value == fill.price * DecScale * fill.quantity
        avg == IF new_filled > 0
               THEN DecDiv(old_value + new_value, new_filled)
               ELSE order.average_fill_price
        remaining == order.original_quantity - fill.quantity
    IN  [order EXCEPT !.average_fill_price = avg,
                      !.filled_quantity = new_filled,
                      !.remaining_quantity = remaining,
                      !.updated_at = timestamp,
                      !.fills = Append(@, [price |-> fill.price, quantity |-> fill.quantity]),
                      !.status = IF remaining <= 0
                                 THEN Filled(new_filled, avg)
                                 ELSE PartiallyFilled(new_filled, remaining)]

\* a plausible slip: an exactly exhausted order is still reported partially filled
ManagedOrder_record_fill_StrictlyNegative(order, fill, timestamp) ==
    LET new_filled == order.filled_quantity + fill.quantity
        old_value == order.average_fill_price * order.filled_quantity
        new_value == fill.price * DecScale * fill.quantity
        avg == IF new_filled > 0
               THEN DecDiv(old_value + new_value, new_filled)
               ELSE order.average_fill_price
        remaining == order.original_quantity - new_filled
    IN  [order EXCEPT !.average_fill_price = avg,
                      !.filled_quantity = new_filled,
                      !.remaining_quantity = remaining,
                      !.updated_at = timestamp,
                      !.fills = Append(@, [price |-> fill.price, quantity |-> fill.quantity]),
                      !.status = IF remaining < 0
                                 THEN Filled(new_filled, avg)
                                 ELSE PartiallyFilled(new_filled, remaining)]

ManagedOrder_record_fill(order, fill, timestamp) ==
    LET new_filled == order.filled_quantity + fill.quantity
        old_value == order.average_fill_price * order.filled_quantity
        new_value == fill.price * DecScale * fill.quantity
        avg == IF new_filled > 0
               THEN DecDiv(old_value + new_value, new_filled)
               ELSE order.average_fill_price
        remaining == order.original_quantity - new_filled
    IN  [order EXCEPT !.average_fill_price = avg,
                      !.filled_quantity = new_filled,
                      !.remaining_quantity = remaining,
                      !.updated_at = timestamp,
                      !.fills = Append(@, [price |-> fill.price, quantity |-> fill.quantity]),
                      !.status = IF remaining <= 0
                                 THEN Filled(new_filled, avg)
                                 ELSE PartiallyFilled(new_filled, remaining)]

update_status(order, status, timestamp) ==
    [order EXCEPT !.status = status, !.updated_at = timestamp]

(***************************************************************************)
(* OrderManager.  Each operation is a function of the manager's three      *)
(* collections, returning the collections after the call and its result.   *)
(***************************************************************************)
Manager == [ orders |-> orders,
             orders_by_exchange_id |-> orders_by_exchange_id,
             open_orders_by_symbol |-> open_orders_by_symbol ]

OrderManager_new == [ orders |-> EmptyMap,
                      orders_by_exchange_id |-> EmptyMap,
                      open_orders_by_symbol |-> EmptyMap ]

Ok(m) == [m |-> m, ok |-> TRUE]

Err(m) == [m |-> m, ok |-> FALSE]

remove_from_open_orders(m, symbol, client_order_id) ==
    IF symbol \in DOMAIN m.open_orders_by_symbol
    THEN [m EXCEPT !.open_orders_by_symbol[symbol] =
                       SelectSeq(@, LAMBDA id : id /= client_order_id)]
    ELSE m

\* a plausible slip: the symbol index is extended before the limit is checked
register_order_IndexesBeforeLimit(m, cfg, request, client_order_id, timestamp) ==
    LET sym == request.symbol
        old == IF sym \in DOMAIN m.open_orders_by_symbol
               THEN m.open_orders_by_symbol[sym] ELSE << >>
        pushed == [m EXCEPT !.open_orders_by_symbol =
                                MapInsert(@, sym, Append(old, client_order_id))]
        order == ManagedOrder_new(client_order_id, client_order_id, sym, request.side,
                                  request.order_type, request.price, request.quantity,
                                  timestamp)
    IN  IF cfg.detect_duplicates /\ client_order_id \in DOMAIN m.orders
        THEN Err(m)
        ELSE IF cfg.max_open_orders > 0 /\ Len(old) >= cfg.max_open_orders
        THEN Err(pushed)
        ELSE Ok([pushed EXCEPT !.orders = MapInsert(@, client_order_id, order)])

register_order(m, cfg, request, client_order_id, timestamp) ==
    LET sym == request.symbol
        old == IF sym \in DOMAIN m.open_orders_by_symbol
               THEN m.open_orders_by_symbol[sym] ELSE << >>
        symbol_orders == Len(old)
        order == ManagedOrder_new(client_order_id, client_order_id, sym, request.side,
                                  request.order_type, request.price, request.quantity,
                                  timestamp)
    IN  IF cfg.detect_duplicates /\ client_order_id \in DOMAIN m.orders
        THEN Err(m)
        ELSE IF cfg.max_open_orders > 0 /\ symbol_orders >= cfg.max_open_orders
        THEN Err(m)
        ELSE Ok([m EXCEPT !.open_orders_by_symbol =
                              MapInsert(@, sym, Append(old, client_order_id)),
                          !.orders = MapInsert(@, client_order_id, order)])

\* the manager once update_order has rewritten the order and the exchange-id
\* map, before the open index is touched
update_order_entry(m, client_order_id, response, timestamp) ==
    LET order == m.orders[client_order_id]
        exchange_id == response.order_id
        renamed == order.order_id /= exchange_id
        order1 == IF renamed THEN [order EXCEPT !.order_id = exchange_id] ELSE order
        order2 == update_status(order1, response.status, timestamp)
    IN  [m EXCEPT !.orders[client_order_id] = order2,
                  !.orders_by_exchange_id =
                      IF renamed THEN MapInsert(@, exchange_id, client_order_id) ELSE @]

\* a plausible slip: the open index is cleaned on every update
update_order_AlwaysRemoves(m, client_order_id, response, timestamp) ==
    IF client_order_id \notin DOMAIN m.orders
    THEN Err(m)
    ELSE LET m1 == update_order_entry(m, client_order_id, response, timestamp)
             order == m1.orders[client_order_id]
         IN  Ok(remove_from_open_orders(m1, order.symbol, client_order_id))

update_order(m, client_order_id, response, timestamp) ==
    IF client_order_id \notin DOMAIN m.orders
    THEN Err(m)
    ELSE LET m1 == update_order_entry(m, client_order_id, response, timestamp)
             order == m1.orders[client_order_id]
         IN  IF is_terminal(order)
             THEN Ok(remove_from_open_orders(m1, order.symbol, client_order_id))
             ELSE Ok(m1)

\* the manager once record_fill has applied the fill to the owning order,
\* before the open index is touched
record_fill_entry(m, client_id, fill, timestamp) ==
    [m EXCEPT !.orders[client_id] = ManagedOrder_record_fill(@, fill, timestamp)]

\* a plausible slip: a fill for an unknown exchange id is booked on the order
\* whose client id it names
record_fill_FallsBackToClientId(m, fill, timestamp) ==
    LET known == fill.order_id \in DOMAIN m.orders_by_exchange_id
        client_id == IF known THEN m.orders_by_exchange_id[fill.order_id] ELSE fill.order_id
    IN  IF client_id \notin DOMAIN m.orders
        THEN Err(m)
        ELSE LET m1 == record_fill_entry(m, client_id, fill, timestamp)
                 order == m1.orders[client_id]
             IN  IF is_terminal(order)
                 THEN Ok(remove_from_open_orders(m1, order.symbol, client_id))
                 ELSE Ok(m1)

record_fill(m, fill, timestamp) ==
    IF fill.order_id \notin DOMAIN m.orders_by_exchange_id
    THEN Err(m)
    ELSE LET client_id == m.orders_by_exchange_id[fill.order_id]
         IN  IF client_id \notin DOMAIN m.orders
             THEN Err(m)
             ELSE LET m1 == record_fill_entry(m, client_id, fill, timestamp)
                      order == m1.orders[client_id]
                  IN  IF is_terminal(order)
                      THEN Ok(remove_from_open_orders(m1, order.symbol, client_id))
                      ELSE Ok(m1)

\* the manager once mark_cancelled has rewritten the order's status, before the
\* open index is touched
mark_cancelled_entry(m, client_order_id, timestamp) ==
    LET order == m.orders[client_order_id]
        filled_qty == order.filled_quantity
    IN  [m EXCEPT !.orders[client_order_id] =
                      update_status(order, Cancelled(filled_qty), timestamp)]

\* a plausible slip: the cancelled order stays in the open index
mark_cancelled_KeepsIndex(m, client_order_id, timestamp) ==
    IF client_order_id \notin DOMAIN m.orders
    THEN Err(m)
    ELSE Ok(mark_cancelled_entry(m, client_order_id, timestamp))

mark_cancelled(m, client_order_id, timestamp) ==
    IF client_order_id \notin DOMAIN m.orders
    THEN Err(m)
    ELSE LET m1 == mark_cancelled_entry(m, client_order_id, timestamp)
         IN  Ok(remove_from_open_orders(m1, m1.orders[client_order_id].symbol,
                                        client_order_id))

\* a plausible slip: an order is reported as soon as its age reaches the timeout
check_timeouts_AtTimeout(m, cfg, current_time) ==
    IF cfg.order_timeout_ms = 0
    THEN {}
    ELSE { id \in DOMAIN m.orders :
             /\ is_open(m.orders[id]) \/ is_pending(m.orders[id])
             /\ age_ms(m.orders[id], current_time) >= cfg.order_timeout_ms }

\* the returned Vec holds each key of the map at most once, in the map's
\* iteration order: it is modelled as the set of its elements
check_timeouts(m, cfg, current_time) ==
    IF cfg.order_timeout_ms = 0
    THEN {}
    ELSE { id \in DOMAIN m.orders :
             /\ is_open(m.orders[id]) \/ is_pending(m.orders[id])
             /\ age_ms(m.orders[id], current_time) > cfg.order_timeout_ms }

RECURSIVE cleanup_remove(_, _)
cleanup_remove(m, to_remove) ==
    IF to_remove = {}
    THEN m
    ELSE LET client_id == CHOOSE c \in to_remove : TRUE
             rest == to_remove \ {client_id}
         IN  IF client_id \in DOMAIN m.orders
             THEN cleanup_remove(
                      [m EXCEPT !.orders = MapRemove(@, client_id),
                                !.orders_by_exchange_id =
                                    MapRemove(@, m.orders[client_id].order_id)],
                      rest)
             ELSE cleanup_remove(m, rest)

\* a plausible slip: an order is dropped as soon as its age reaches the retention
cleanup_AtRetention(m, retention_ms, current_time) ==
    LET to_remove == { id \in DOMAIN m.orders :
                         /\ is_terminal(m.orders[id])
                         /\ SaturatingSub(current_time, m.orders[id].updated_at) >= retention_ms }
    IN  cleanup_remove(m, to_remove)

cleanup(m, retention_ms, current_time) ==
    LET to_remove == { id \in DOMAIN m.orders :
                         /\ is_terminal(m.orders[id])
                         /\ SaturatingSub(current_time, m.orders[id].updated_at) > retention_ms }
    IN  cleanup_remove(m, to_remove)

(***************************************************************************)
(* The order manager driven by one caller.  Every action is one call of    *)
(* the public method of the same name, with arguments drawn from the sets  *)
(* the action is given.  A call that fails, and a query, leave the manager *)
(* as it is.                                                               *)
(***************************************************************************)
Retentions == {0, 1}

SetManager(m) ==
    /\ orders' = m.orders
    /\ orders_by_exchange_id' = m.orders_by_exchange_id
    /\ open_orders_by_symbol' = m.open_orders_by_symbol
    /\ UNCHANGED config

Install(m) ==
    /\ SetManager(m)
    /\ UNCHANGED notOM

\* the open list of a symbol; a symbol without an entry has none
OpenList(m, symbol) ==
    IF symbol \in DOMAIN m.open_orders_by_symbol THEN m.open_orders_by_symbol[symbol] ELSE << >>

\* the orders of a symbol's open list that are in the map and open or pending
get_open_orders_for_symbol(m, symbol) ==
    SelectSeq(OpenList(m, symbol),
              LAMBDA id : /\ id \in DOMAIN m.orders
                          /\ (is_open(m.orders[id]) \/ is_pending(m.orders[id])))

RECURSIVE sum_remaining(_, _, _)
\* .filter(side).map(remaining_quantity).sum() over a list of client ids
sum_remaining(m, ids, side) ==
    IF ids = << >> THEN 0
    ELSE (IF m.orders[ids[1]].side = side THEN m.orders[ids[1]].remaining_quantity ELSE 0)
             + sum_remaining(m, Tail(ids), side)

get_open_quantity(m, symbol, side) ==
    sum_remaining(m, get_open_orders_for_symbol(m, symbol), side)

RegisterOrder(Cs, Rs, Ts) ==
    \E request \in Rs, client_order_id \in Cs, timestamp \in Ts :
        /\ Len(OpenList(Manager, request.symbol)) < MaxOpenList
        /\ Install(register_order(Manager, config, request, client_order_id, timestamp).m)

\* Acks: pairs of a client id and the response the exchange gives it
UpdateOrder(Acks, Ts) ==
    \E ack \in Acks, timestamp \in Ts :
        Install(update_order(Manager, ack[1], ack[2], timestamp).m)

\* the owner of a fill, when the manager finds one
FillOwner(m, fill) ==
    IF /\ fill.order_id \in DOMAIN m.orders_by_exchange_id
       /\ m.orders_by_exchange_id[fill.order_id] \in DOMAIN m.orders
    THEN {m.orders_by_exchange_id[fill.order_id]}
    ELSE {}

RecordFill(Fs, Ts) ==
    \E fill \in Fs, timestamp \in Ts :
        /\ \A c \in FillOwner(Manager, fill) : Len(orders[c].fills) < MaxFills
        /\ Install(record_fill(Manager, fill, timestamp).m)

MarkCancelled(Cs, Ts) ==
    \E client_order_id \in Cs, timestamp \in Ts :
        Install(mark_cancelled(Manager, client_order_id, timestamp).m)

CheckTimeouts(Ts) ==
    \E current_time \in Ts :
        /\ check_timeouts(Manager, config, current_time) \subseteq DOMAIN orders
        /\ UNCHANGED omVars
        /\ UNCHANGED notOM

Cleanup(Rs, Ts) ==
    \E retention_ms \in Rs, current_time \in Ts :
        Install(cleanup(Manager, retention_ms, current_time))

(***************************************************************************)
(* ThreadSafeOrderManager: Arc<RwLock<OrderManager>>.  Every thread owns a *)
(* clone of the handle.  A call takes the lock (write() for the mutating   *)
(* methods, read() for the queries), runs the manager's method under the   *)
(* guard and drops the guard when the method returns.  The method's body   *)
(* is followed at the grain of its stores: a mutating method rewrites one  *)
(* collection, then the others; a query reads the open index, then the     *)
(* order map.                                                              *)
(***************************************************************************)
Threads == {"t1", "t2", "t3"}
TSClients == {"c1"}
TSRequest == [symbol |-> "BTC-USD", side |-> "Buy", order_type |-> "Limit", price |-> 1, quantity |-> 2]
TSResponses == { [order_id |-> "e1", status |-> Open(0)],
                 [order_id |-> "e1", status |-> Cancelled(0)] }
TSFills == { f \in BookFills : f.order_id = "e1" }

NoResponse == [order_id |-> "", status |-> Pending]
NoFill == [order_id |-> "", price |-> 0, quantity |-> 0]

ThreadCall(op, client_order_id, response, fill, timestamp, retention_ms) ==
    [ op |-> op, client_order_id |-> client_order_id, response |-> response,
      fill |-> fill, timestamp |-> timestamp, retention_ms |-> retention_ms ]

NoCall == ThreadCall("none", "", NoResponse, NoFill, 0, 0)

\* the calls that go through write()
WriteCalls ==
    { ThreadCall("register_order", c, NoResponse, NoFill, ts, 0) :
          c \in TSClients, ts \in DepthTimes }
    \cup { ThreadCall("update_order", c, response, NoFill, ts, 0) :
          c \in TSClients, response \in TSResponses, ts \in DepthTimes }
    \cup { ThreadCall("record_fill", "", NoResponse, fill, ts, 0) :
          fill \in TSFills, ts \in DepthTimes }
    \cup { ThreadCall("mark_cancelled", c, NoResponse, NoFill, ts, 0) :
          c \in TSClients, ts \in DepthTimes }
    \cup { ThreadCall("cleanup", "", NoResponse, NoFill, ts, 0) : ts \in BookLaterTimes }

\* the call that goes through read(): get_open_quantity
ReadCall == ThreadCall("get_open_quantity", "", NoResponse, NoFill, 0, 0)

\* the manager a mutating method leaves when it returns
apply_write(m, cfg, cl) ==
    CASE cl.op = "register_order" ->
             register_order(m, cfg, TSRequest, cl.client_order_id, cl.timestamp).m
      [] cl.op = "update_order" ->
             update_order(m, cl.client_order_id, cl.response, cl.timestamp).m
      [] cl.op = "record_fill" -> record_fill(m, cl.fill, cl.timestamp).m
      [] cl.op = "mark_cancelled" -> mark_cancelled(m, cl.client_order_id, cl.timestamp).m
      [] cl.op = "cleanup" -> cleanup(m, cl.retention_ms, cl.timestamp)
      [] OTHER -> m

\* the manager in the middle of a mutating method: register_order has pushed
\* the id on the open list and not yet inserted the order; update_order,
\* record_fill and mark_cancelled have rewritten the order and not yet the open
\* list; cleanup has removed the orders and not yet their exchange ids.  A
\* call that returns an error has stored nothing.
begin_write(m, cfg, cl) ==
    CASE cl.op = "register_order" ->
             IF register_order(m, cfg, TSRequest, cl.client_order_id, cl.timestamp).ok
             THEN [m EXCEPT !.open_orders_by_symbol =
                       MapInsert(@, TSRequest.symbol,
                                 Append(OpenList(m, TSRequest.symbol), cl.client_order_id))]
             ELSE m
      [] cl.op = "update_order" ->
             IF update_order(m, cl.client_order_id, cl.response, cl.timestamp).ok
             THEN update_order_entry(m, cl.client_order_id, cl.response, cl.timestamp)
             ELSE m
      [] cl.op = "record_fill" ->
             IF record_fill(m, cl.fill, cl.timestamp).ok
             THEN record_fill_entry(m, m.orders_by_exchange_id[cl.fill.order_id],
                                    cl.fill, cl.timestamp)
             ELSE m
      [] cl.op = "mark_cancelled" ->
             IF mark_cancelled(m, cl.client_order_id, cl.timestamp).ok
             THEN mark_cancelled_entry(m, cl.client_order_id, cl.timestamp)
             ELSE m
      [] cl.op = "cleanup" ->
             [m EXCEPT !.orders = cleanup(m, cl.retention_ms, cl.timestamp).orders]
      [] OTHER -> m

\* std::sync::RwLock: read() is granted while no thread holds the write guard,
\* write() while no thread holds any guard
can_read_IgnoresWriter(writer, readers) == TRUE

can_read(writer, readers) == writer = {}

can_write(writer, readers) == writer = {} /\ readers = {}

NothingObserved == [open_orders_by_symbol |-> EmptyMap, orders |-> EmptyMap]

TSIdle ==
    /\ pc = [t \in Threads |-> "idle"]
    /\ call = [t \in Threads |-> NoCall]
    /\ target = [t \in Threads |-> OrderManager_new]
    /\ lock_writer = {}
    /\ lock_readers = {}
    /\ committed = OrderManager_new
    /\ observed = [t \in Threads |-> NothingObserved]

\* write(): self.inner.write()
AcquireWrite(t) ==
    /\ pc[t] = "idle"
    /\ can_write(lock_writer, lock_readers)
    /\ \E cl \in WriteCalls :
          /\ cl.op = "register_order" =>
                 Len(OpenList(Manager, TSRequest.symbol)) < MaxOpenList
          /\ cl.op = "record_fill" =>
                 \A c \in FillOwner(Manager, cl.fill) : Len(orders[c].fills) < MaxFills
          /\ call' = [call EXCEPT ![t] = cl]
    /\ lock_writer' = lock_writer \cup {t}
    /\ pc' = [pc EXCEPT ![t] = "write_locked"]
    /\ UNCHANGED <<omVars, target, lock_readers, committed, observed>>
    /\ UNCHANGED notTS

\* f(&mut guard), up to the method's first store
WriteFirst(t) ==
    /\ pc[t] = "write_locked"
    /\ SetManager(begin_write(Manager, config, call[t]))
    /\ target' = [target EXCEPT ![t] = apply_write(Manager, config, call[t])]
    /\ pc' = [pc EXCEPT ![t] = "write_half"]
    /\ UNCHANGED <<call, lock_writer, lock_readers, committed, observed>>
    /\ UNCHANGED notTS

\* f(&mut guard), the rest of the method
WriteSecond(t) ==
    /\ pc[t] = "write_half"
    /\ SetManager(target[t])
    /\ pc' = [pc EXCEPT ![t] = "write_done"]
    /\ UNCHANGED <<call, target, lock_writer, lock_readers, committed, observed>>
    /\ UNCHANGED notTS

\* the write guard is dropped as write() returns; the call joins the writes
\* that have returned
ReleaseWrite(t) ==
    /\ pc[t] = "write_done"
    /\ lock_writer' = lock_writer \ {t}
    /\ committed' = apply_write(committed, config, call[t])
    /\ pc' = [pc EXCEPT ![t] = "idle"]
    /\ call' = [call EXCEPT ![t] = NoCall]
    /\ target' = [target EXCEPT ![t] = OrderManager_new]
    /\ UNCHANGED <<omVars, lock_readers, observed>>
    /\ UNCHANGED notTS

\* read(): self.inner.read()
AcquireRead(t) ==
    /\ pc[t] = "idle"
    /\ can_read(lock_writer, lock_readers)
    /\ lock_readers' = lock_readers \cup {t}
    /\ call' = [call EXCEPT ![t] = ReadCall]
    /\ pc' = [pc EXCEPT ![t] = "read_locked"]
    /\ UNCHANGED <<omVars, target, lock_writer, committed, observed>>
    /\ UNCHANGED notTS

\* get_open_orders_for_symbol: the symbol's ids are taken from the open index
ReadIndex(t) ==
    /\ pc[t] = "read_locked"
    /\ observed' = [observed EXCEPT ![t] =
                        [open_orders_by_symbol |-> open_orders_by_symbol, orders |-> EmptyMap]]
    /\ pc' = [pc EXCEPT ![t] = "read_half"]
    /\ UNCHANGED <<omVars, call, target, lock_writer, lock_readers, committed>>
    /\ UNCHANGED notTS

\* get_open_orders_for_symbol: each id is looked up in the order map
ReadOrders(t) ==
    /\ pc[t] = "read_half"
    /\ observed' = [observed EXCEPT ![t].orders = orders]
    /\ pc' = [pc EXCEPT ![t] = "read_done"]
    /\ UNCHANGED <<omVars, call, target, lock_writer, lock_readers, committed>>
    /\ UNCHANGED notTS

\* the read guard is dropped as read() returns
ReleaseRead(t) ==
    /\ pc[t] = "read_done"
    /\ lock_readers' = lock_readers \ {t}
    /\ pc' = [pc EXCEPT ![t] = "idle"]
    /\ call' = [call EXCEPT ![t] = NoCall]
    /\ observed' = [observed EXCEPT ![t] = NothingObserved]
    /\ UNCHANGED <<omVars, target, lock_writer, committed>>
    /\ UNCHANGED notTS

(***************************************************************************)
(* AlertManager (risk/alerts.rs).  An alert type is followed by its        *)
(* type_key; a handler is a CollectingAlertHandler, which keeps what it    *)
(* is handed.                                                              *)
(***************************************************************************)
\* AlertSeverity, in its derived order
Info == 0
Warning == 1
Error == 2
Critical == 3

AlertKinds == {"large_loss", "custom_x"}
RaiseSeverities == {Warning, Critical}
HandlerSeverities == {Error}
HistoryLimits == {0, 1, 2}
DedupWindows == {0, 2}
MaxAges == {0, 1}
AlertTimes == {0, 1, 2}
\* an id that no alert carries
NoAlertId == <<"", 0, 0>>

AlertMgr == [ handlers |-> handlers,
              alert_history |-> alert_history,
              max_history |-> max_history,
              dedup_window_ms |-> dedup_window_ms,
              recent_alerts |-> recent_alerts,
              ALERT_COUNTER |-> ALERT_COUNTER ]

\* AlertType::default_message, a text made from the alert type
default_message(type_key) == <<"message", type_key>>

\* the id is the text "{type_key}-{timestamp}-{counter}"
Alert_new(counter, type_key, severity, timestamp) ==
    [ id |-> <<type_key, timestamp, counter>>,
      alert_type |-> type_key,
      severity |-> severity,
      message |-> default_message(type_key),
      timestamp |-> timestamp,
      acknowledged |-> FALSE ]

CollectingAlertHandler_new(min_severity) == [min_severity |-> min_severity, alerts |-> << >>]

accepts_severity(handler, severity) == severity >= handler.min_severity

handle(handler, alert) == [handler EXCEPT !.alerts = Append(@, alert)]

AlertManager_new(limit, window) ==
    [ handlers |-> << >>,
      alert_history |-> << >>,
      max_history |-> limit,
      dedup_window_ms |-> window,
      recent_alerts |-> EmptyMap,
      ALERT_COUNTER |-> 0 ]

add_handler(am, handler) == [am EXCEPT !.handlers = Append(@, handler)]

\* a plausible slip: the history is cut at its newer end
trim_history_KeepsOldest(history, limit) ==
    IF Len(history) > limit
    THEN SubSeq(history, 1, limit)
    ELSE history

\* while alert_history.len() > max_history { pop_front }
trim_history(history, limit) ==
    IF Len(history) > limit
    THEN SubSeq(history, Len(history) - limit + 1, Len(history))
    ELSE history

\* a plausible slip: the time of the raise is not remembered
alert_with_message_ForgetsLastSeen(am, type_key, severity, timestamp) ==
    IF /\ type_key \in DOMAIN am.recent_alerts
       /\ SaturatingSub(timestamp, am.recent_alerts[type_key]) < am.dedup_window_ms
    THEN am
    ELSE LET alert == Alert_new(am.ALERT_COUNTER, type_key, severity, timestamp)
         IN  [am EXCEPT
                 !.ALERT_COUNTER = @ + 1,
                 !.handlers = [i \in 1..Len(@) |->
                                  IF accepts_severity(@[i], severity)
                                  THEN handle(@[i], alert) ELSE @[i]],
                 !.alert_history = trim_history(Append(@, alert), am.max_history)]

\* a plausible slip: the alert is handed to every handler, whatever it accepts
alert_with_message_DispatchesToAll(am, type_key, severity, timestamp) ==
    IF /\ type_key \in DOMAIN am.recent_alerts
       /\ SaturatingSub(timestamp, am.recent_alerts[type_key]) < am.dedup_window_ms
    THEN am
    ELSE LET alert == Alert_new(am.ALERT_COUNTER, type_key, severity, timestamp)
         IN  [am EXCEPT
                 !.ALERT_COUNTER = @ + 1,
                 !.handlers = [i \in 1..Len(@) |-> handle(@[i], alert)],
                 !.recent_alerts = MapInsert(@, type_key, timestamp),
                 !.alert_history = trim_history(Append(@, alert), am.max_history)]

alert_with_message(am, type_key, severity, timestamp) ==
    IF /\ type_key \in DOMAIN am.recent_alerts
       /\ SaturatingSub(timestamp, am.recent_alerts[type_key]) < am.dedup_window_ms
    THEN am
    ELSE LET alert == Alert_new(am.ALERT_COUNTER, type_key, severity, timestamp)
         IN  [am EXCEPT
                 !.ALERT_COUNTER = @ + 1,
                 !.handlers = [i \in 1..Len(@) |->
                                  IF accepts_severity(@[i], severity)
                                  THEN handle(@[i], alert) ELSE @[i]],
                 !.recent_alerts = MapInsert(@, type_key, timestamp),
                 !.alert_history = trim_history(Append(@, alert), am.max_history)]

\* the first alert of the history that carries the id is acknowledged
\* a plausible slip: acknowledging an alert also lowers its severity
acknowledge_Downgrades(am, alert_id) ==
    LET hits == { i \in 1..Len(am.alert_history) : am.alert_history[i].id = alert_id }
    IN  IF hits = {}
        THEN [am |-> am, found |-> FALSE]
        ELSE LET first == CHOOSE i \in hits : \A j \in hits : i <= j
             IN  [am |-> [am EXCEPT !.alert_history[first].acknowledged = TRUE,
                                    !.alert_history[first].severity = Info],
                  found |-> TRUE]

acknowledge(am, alert_id) ==
    LET hits == { i \in 1..Len(am.alert_history) : am.alert_history[i].id = alert_id }
    IN  IF hits = {}
        THEN [am |-> am, found |-> FALSE]
        ELSE LET first == CHOOSE i \in hits : \A j \in hits : i <= j
             IN  [am |-> [am EXCEPT !.alert_history[first].acknowledged = TRUE],
                  found |-> TRUE]

\* a plausible slip: acknowledging everything also forgets the last raises
acknowledge_all_ClearsDedup(am) ==
    [am EXCEPT !.alert_history = [i \in 1..Len(@) |-> [@[i] EXCEPT !.acknowledged = TRUE]],
               !.recent_alerts = EmptyMap]

acknowledge_all(am) ==
    [am EXCEPT !.alert_history = [i \in 1..Len(@) |-> [@[i] EXCEPT !.acknowledged = TRUE]]]

\* the queries take &self: each is a function of the manager
unacknowledged_count(am) ==
    Len(SelectSeq(am.alert_history, LAMBDA a : ~a.acknowledged))

get_alerts_by_severity(am, severity) ==
    SelectSeq(am.alert_history, LAMBDA a : a.severity = severity)

get_alerts_at_or_above(am, severity) ==
    SelectSeq(am.alert_history, LAMBDA a : a.severity >= severity)

\* a plausible slip: what is exactly as old as the cutoff is dropped too
AlertManager_cleanup_DropsAtCutoff(am, max_age_ms, current_time) ==
    LET cutoff == SaturatingSub(current_time, max_age_ms)
    IN  [am EXCEPT
            !.alert_history = SelectSeq(@, LAMBDA a : a.timestamp > cutoff),
            !.recent_alerts = [k \in { x \in DOMAIN @ : @[x] > cutoff } |-> @[k]]]

AlertManager_cleanup(am, max_age_ms, current_time) ==
    LET cutoff == SaturatingSub(current_time, max_age_ms)
    IN  [am EXCEPT
            !.alert_history = SelectSeq(@, LAMBDA a : a.timestamp >= cutoff),
            !.recent_alerts = [k \in { x \in DOMAIN @ : @[x] >= cutoff } |-> @[k]]]

clear_history(am) == [am EXCEPT !.alert_history = << >>, !.recent_alerts = EmptyMap]

AMIdle ==
    /\ handlers = << >>
    /\ alert_history = << >>
    /\ max_history = 0
    /\ dedup_window_ms = 0
    /\ recent_alerts = EmptyMap
    /\ ALERT_COUNTER = 0

SetAlertMgr(am) ==
    /\ handlers' = am.handlers
    /\ alert_history' = am.alert_history
    /\ recent_alerts' = am.recent_alerts
    /\ ALERT_COUNTER' = am.ALERT_COUNTER
    /\ UNCHANGED <<max_history, dedup_window_ms>>
    /\ UNCHANGED notAM

AddHandler ==
    \E min_severity \in HandlerSeverities :
        /\ Len(handlers) < MaxHandlers
        /\ SetAlertMgr(add_handler(AlertMgr, CollectingAlertHandler_new(min_severity)))

\* alert() and alert_with_message() differ in the message only
Raise ==
    \E type_key \in AlertKinds, severity \in RaiseSeverities, timestamp \in AlertTimes :
        /\ ALERT_COUNTER < MaxAlerts
        /\ SetAlertMgr(alert_with_message(AlertMgr, type_key, severity, timestamp))

Acknowledge ==
    \E alert_id \in { a.id : a \in SeqElems(alert_history) } \cup {NoAlertId} :
        SetAlertMgr(acknowledge(AlertMgr, alert_id).am)

AcknowledgeAll == SetAlertMgr(acknowledge_all(AlertMgr))

AlertCleanup ==
    \E max_age_ms \in MaxAges, current_time \in AlertTimes :
        SetAlertMgr(AlertManager_cleanup(AlertMgr, max_age_ms, current_time))

ClearHistory == SetAlertMgr(clear_history(AlertMgr))

\* unacknowledged_count, get_alerts_by_severity, get_alerts_at_or_above
AlertQueries ==
    \E severity \in RaiseSeverities :
        /\ unacknowledged_count(AlertMgr) <= Len(alert_history)
        /\ Len(get_alerts_by_severity(AlertMgr, severity))
               <= Len(get_alerts_at_or_above(AlertMgr, severity))
        /\ UNCHANGED amVars
        /\ UNCHANGED notAM

\* the same two calls where handlers of several thresholds are followed
DispatchSeverities == {Info, Error}
DispatchTimes == {0, 2}

AddDispatchHandler ==
    \E min_severity \in DispatchSeverities :
        /\ Len(handlers) < MaxDispatchHandlers
        /\ SetAlertMgr(add_handler(AlertMgr, CollectingAlertHandler_new(min_severity)))

RaiseDispatch ==
    \E type_key \in AlertKinds, severity \in RaiseSeverities, timestamp \in DispatchTimes :
        /\ ALERT_COUNTER < MaxAlerts
        /\ SetAlertMgr(alert_with_message(AlertMgr, type_key, severity, timestamp))

(***************************************************************************)
(* Alert::new called from several threads.  ALERT_COUNTER is one static    *)
(* AtomicU64 of the process; fetch_add is a single atomic step, after      *)
(* which the thread formats the id from the value it has drawn.            *)
(***************************************************************************)
NoNewCall == [type_key |-> "", severity |-> Info, timestamp |-> 0, counter |-> 0]

\* ALERT_COUNTER.fetch_add(1, Ordering::Relaxed): the value left in the counter
fetch_add_Stale(counter) == counter

fetch_add(counter) == counter + 1

NewIdle ==
    /\ new_pc = [t \in Threads |-> "idle"]
    /\ new_call = [t \in Threads |-> NoNewCall]
    /\ made = [t \in Threads |-> << >>]

\* let counter = ALERT_COUNTER.fetch_add(1, Ordering::Relaxed)
DrawCounter(t) ==
    /\ new_pc[t] = "idle"
    /\ ALERT_COUNTER < MaxAlerts
    /\ \E type_key \in AlertKinds, severity \in RaiseSeverities, timestamp \in DispatchTimes :
          new_call' = [new_call EXCEPT ![t] =
                          [type_key |-> type_key, severity |-> severity,
                           timestamp |-> timestamp, counter |-> ALERT_COUNTER]]
    /\ ALERT_COUNTER' = fetch_add(ALERT_COUNTER)
    /\ new_pc' = [new_pc EXCEPT ![t] = "drawn"]
    /\ UNCHANGED made
    /\ UNCHANGED notNew

\* the id is formatted and the alert returned
ReturnAlert(t) ==
    /\ new_pc[t] = "drawn"
    /\ made' = [made EXCEPT ![t] =
                    Append(@, Alert_new(new_call[t].counter, new_call[t].type_key,
                                        new_call[t].severity, new_call[t].timestamp))]
    /\ new_pc' = [new_pc EXCEPT ![t] = "idle"]
    /\ new_call' = [new_call EXCEPT ![t] = NoNewCall]
    /\ UNCHANGED ALERT_COUNTER
    /\ UNCHANGED notNew

(***************************************************************************)
(* RiskLimits.  Decimals are drawn from small sets of whole numbers, on    *)
(* which Decimal addition, abs and multiplication are exact.               *)
(***************************************************************************)
MaxPosition == 3

\* positions and order sizes
Positions == (0 - MaxPosition)..MaxPosition

Prices == {0 - 1, 0, 1, 2}

\* what RiskLimits::new is called with, for each of its three arguments
LimitValues == (0 - 1)..MaxPosition

CheckOk(allowed) == [ok |-> TRUE, allowed |-> allowed]

\* Err(MMError::InvalidMarketState("price must be positive"))
CheckErr == [ok |-> FALSE, allowed |-> FALSE]

\* RiskLimits::new: is the configuration accepted
RiskLimits_new_ok(max_position, max_notional, scaling_factor) ==
    /\ ~(max_position <= 0)
    /\ ~(max_notional <= 0)
    /\ ~(scaling_factor < 0 \/ scaling_factor > 1)

RiskLimits_new(max_position, max_notional, scaling_factor) ==
    [max_position |-> max_position, max_notional |-> max_notional,
     scaling_factor |-> scaling_factor]

check_order_RejectsAtLimit(self, current_position, order_size, price) ==
    IF price <= 0 THEN CheckErr
    ELSE LET new_position == current_position + order_size
             new_notional == AbsInt(new_position) * price
         IN  IF AbsInt(new_position) >= self.max_position THEN CheckOk(FALSE)
             ELSE IF new_notional >= self.max_notional THEN CheckOk(FALSE)
             ELSE CheckOk(TRUE)

check_order(self, current_position, order_size, price) ==
    IF price <= 0 THEN CheckErr
    ELSE LET new_position == current_position + order_size
             new_notional == AbsInt(new_position) * price
         IN  IF AbsInt(new_position) > self.max_position THEN CheckOk(FALSE)
             ELSE IF new_notional > self.max_notional THEN CheckOk(FALSE)
             ELSE CheckOk(TRUE)

RiskIdle ==
    /\ limits = RiskLimits_new(1, 1, 0)
    /\ check_args = [current_position |-> 0, order_size |-> 0, price |-> 0]
    /\ check_pc = "returned"
    /\ check_result = CheckErr

\* limits.check_order(current_position, order_size, price) runs and returns
CheckOrder ==
    /\ check_pc = "called"
    /\ check_result' = check_order(limits, check_args.current_position,
                                   check_args.order_size, check_args.price)
    /\ check_pc' = "returned"
    /\ UNCHANGED <<limits, check_args>>
    /\ UNCHANGED notRisk

(***************************************************************************)
(* Backtest engine.  Decimals are whole numbers; the tick prices are       *)
(* chosen so that every mid price is whole too.  A strategy is whatever    *)
(* the caller supplies: here it quotes around the mid at two offsets of    *)
(* its own (TestStrategy has both equal to half its spread) or does not    *)
(* quote at all (PassiveStrategy), and keeps the fills it is told of.      *)
(***************************************************************************)
MaxTicks == 2

MaxRuns == 2

\* bid and ask of a tick
TickPrices == {<<4, 6>>, <<6, 8>>, <<2, 8>>}

MarketTick_new(timestamp, bid, ask) ==
    [timestamp |-> timestamp, bid_price |-> bid, ask_price |-> ask]

MarketTicks == { MarketTick_new(t, p[1], p[2]) : t \in 1..MaxTicks, p \in TickPrices }

mid_price(tick) == DecDiv(tick.bid_price + tick.ask_price, 2)

\* VecDataSource: the tape and how many of its ticks have been handed out
VecDataSource_new(prices) ==
    [ticks |-> [i \in 1..Len(prices) |-> MarketTick_new(i, prices[i][1], prices[i][2])],
     index |-> 0]

Tapes == UNION { [1..n -> TickPrices] : n \in 0..MaxTicks }

SlippageModels ==
    { [kind |-> "None", value |-> 0], [kind |-> "Fixed", value |-> 1],
      [kind |-> "Percentage", value |-> 1], [kind |-> "VolatilityBased", value |-> 2] }

BacktestConfigs ==
    [initial_capital : {10}, fee_rate : {0, 1}, slippage : SlippageModels,
     default_order_size : {1}, record_equity_curve : BOOLEAN, record_trades : BOOLEAN]

PassiveStrategy == [quotes |-> FALSE, bid_offset |-> 0, ask_offset |-> 0, fills_received |-> << >>]

Strategies ==
    {PassiveStrategy} \cup
    [quotes : {TRUE}, bid_offset : {0 - 1, 1}, ask_offset : {0 - 1, 1}, fills_received : {<< >>}]

NoQuote == [some |-> FALSE, bid_price |-> 0, ask_price |-> 0, timestamp |-> 0]

on_tick(strategy, tick) ==
    IF strategy.quotes
    THEN [some |-> TRUE,
          bid_price |-> mid_price(tick) - strategy.bid_offset,
          ask_price |-> mid_price(tick) + strategy.ask_offset,
          timestamp |-> tick.timestamp]
    ELSE NoQuote

on_fill(strategy, fill) ==
    [strategy EXCEPT !.fills_received = Append(@, fill)]

strategy_reset(strategy) == [strategy EXCEPT !.fills_received = << >>]

calculate_slippage(self, price, volatility) ==
    CASE self.kind = "None" -> 0
      [] self.kind = "Fixed" -> self.value
      [] self.kind = "Percentage" -> price * self.value
      [] self.kind = "VolatilityBased" -> price * volatility * self.value

SimulatedFill_with_fee(side, price, quantity, timestamp, fee) ==
    [side |-> side, price |-> price, quantity |-> quantity, timestamp |-> timestamp, fee |-> fee]

notional(fill) == fill.price * fill.quantity

InventoryPosition_new == [quantity |-> 0, last_update |-> 0]

update_fill(position, signed_qty, price, timestamp) ==
    [quantity |-> position.quantity + signed_qty, last_update |-> timestamp]

PnL_new == [realized |-> 0, unrealized |-> 0, total |-> 0]

add_realized(pnl, amount) ==
    [pnl EXCEPT !.realized = @ + amount, !.total = pnl.realized + amount + pnl.unrealized]

BacktestEngine_new(cfg, strategy, data_source) ==
    [config |-> cfg, strategy |-> strategy, data_source |-> data_source,
     position |-> InventoryPosition_new, pnl |-> PnL_new,
     equity_curve |-> << >>, trades |-> << >>, total_fees |-> 0,
     max_position |-> 0, peak_equity |-> cfg.initial_capital, max_drawdown |-> 0]

apply_slippage(self, price, side) ==
    LET slippage == calculate_slippage(self.config.slippage, price, 0)
    IN  IF side = "Buy" THEN price + slippage ELSE price - slippage

create_fill(self, side, price, timestamp) ==
    LET quantity == self.config.default_order_size
        fee == (price * quantity) * self.config.fee_rate
    IN  SimulatedFill_with_fee(side, price, quantity, timestamp, fee)

process_fill(self, fill) ==
    LET signed_qty == IF fill.side = "Buy" THEN fill.quantity ELSE 0 - fill.quantity
        position == update_fill(self.position, signed_qty, fill.price, fill.timestamp)
        cash_flow == IF fill.side = "Buy" THEN 0 - notional(fill) ELSE notional(fill)
        abs_position == AbsInt(position.quantity)
    IN  [self EXCEPT
            !.position = position,
            !.pnl = add_realized(@, cash_flow),
            !.total_fees = @ + fill.fee,
            !.max_position = IF abs_position > @ THEN abs_position ELSE @,
            !.strategy = on_fill(@, fill),
            !.trades = IF self.config.record_trades THEN Append(@, fill) ELSE @]

simulate_fills_StrictCross(self, tick, quote) ==
    LET bought == IF tick.ask_price < quote.bid_price
                  THEN process_fill(self, create_fill(self, "Buy",
                           apply_slippage(self, quote.bid_price, "Buy"), tick.timestamp))
                  ELSE self
    IN  IF tick.bid_price > quote.ask_price
        THEN process_fill(bought, create_fill(bought, "Sell",
                 apply_slippage(bought, quote.ask_price, "Sell"), tick.timestamp))
        ELSE bought

simulate_fills_AskFirst(self, tick, quote) ==
    LET sold == IF tick.bid_price >= quote.ask_price
                THEN process_fill(self, create_fill(self, "Sell",
                         apply_slippage(self, quote.ask_price, "Sell"), tick.timestamp))
                ELSE self
    IN  IF tick.ask_price <= quote.bid_price
        THEN process_fill(sold, create_fill(sold, "Buy",
                 apply_slippage(sold, quote.bid_price, "Buy"), tick.timestamp))
        ELSE sold

simulate_fills(self, tick, quote) ==
    LET bought == IF tick.ask_price <= quote.bid_price
                  THEN process_fill(self, create_fill(self, "Buy",
                           apply_slippage(self, quote.bid_price, "Buy"), tick.timestamp))
                  ELSE self
    IN  IF tick.bid_price >= quote.ask_price
        THEN process_fill(bought, create_fill(bought, "Sell",
                 apply_slippage(bought, quote.ask_price, "Sell"), tick.timestamp))
        ELSE bought

\* one turn of the loop of run_with_progress, for the tick next_tick handed out
run_tick_StaleTotal(self, tick) ==
    LET quote == on_tick(self.strategy, tick)
        filled == IF quote.some THEN simulate_fills(self, tick, quote) ELSE self
        unrealized == filled.position.quantity * mid_price(tick)
        total == filled.pnl.total
        equity == self.config.initial_capital + total - filled.total_fees
        peak_equity == IF equity > filled.peak_equity THEN equity ELSE filled.peak_equity
        drawdown == peak_equity - equity
    IN  [filled EXCEPT
            !.pnl = [realized |-> filled.pnl.realized, unrealized |-> unrealized, total |-> total],
            !.equity_curve = IF self.config.record_equity_curve
                             THEN Append(@, <<tick.timestamp, equity>>) ELSE @,
            !.peak_equity = peak_equity,
            !.max_drawdown = IF drawdown > @ THEN drawdown ELSE @]

run_tick(self, tick) ==
    LET quote == on_tick(self.strategy, tick)
        filled == IF quote.some THEN simulate_fills(self, tick, quote) ELSE self
        unrealized == filled.position.quantity * mid_price(tick)
        total == filled.pnl.realized + unrealized
        equity == self.config.initial_capital + total - filled.total_fees
        peak_equity == IF equity > filled.peak_equity THEN equity ELSE filled.peak_equity
        drawdown == peak_equity - equity
    IN  [filled EXCEPT
            !.pnl = [realized |-> filled.pnl.realized, unrealized |-> unrealized, total |-> total],
            !.equity_curve = IF self.config.record_equity_curve
                             THEN Append(@, <<tick.timestamp, equity>>) ELSE @,
            !.peak_equity = peak_equity,
            !.max_drawdown = IF drawdown > @ THEN drawdown ELSE @]

\* the BacktestResult that run_with_progress builds once the tape is exhausted
BacktestResult_of(self, locals) ==
    [total_pnl |-> self.pnl.total,
     total_fees |-> self.total_fees,
     net_pnl |-> self.pnl.total - self.total_fees,
     num_trades |-> Len(self.trades),
     num_ticks |-> locals.num_ticks,
     start_time |-> locals.start_time,
     end_time |-> locals.end_time,
     max_position |-> self.max_position,
     final_position |-> self.position.quantity,
     equity_curve |-> IF self.config.record_equity_curve THEN self.equity_curve ELSE << >>,
     trades |-> IF self.config.record_trades THEN self.trades ELSE << >>,
     max_drawdown |-> self.max_drawdown]

BacktestEngine_reset_KeepsFees(self) ==
    [self EXCEPT
        !.data_source.index = 0,
        !.strategy = strategy_reset(@),
        !.position = InventoryPosition_new,
        !.pnl = PnL_new,
        !.equity_curve = << >>,
        !.trades = << >>,
        !.max_position = 0,
        !.peak_equity = self.config.initial_capital,
        !.max_drawdown = 0]

BacktestEngine_reset(self) ==
    [self EXCEPT
        !.data_source.index = 0,
        !.strategy = strategy_reset(@),
        !.position = InventoryPosition_new,
        !.pnl = PnL_new,
        !.equity_curve = << >>,
        !.trades = << >>,
        !.total_fees = 0,
        !.max_position = 0,
        !.peak_equity = self.config.initial_capital,
        !.max_drawdown = 0]

\* no run in progress; fresh says that the engine is as new or as reset
NotRunning(fresh) ==
    [running |-> FALSE, fresh |-> fresh, num_ticks |-> 0, start_time |-> 0, end_time |-> 0]

BacktestIdle ==
    /\ engine = BacktestEngine_new(
                    [initial_capital |-> 10, fee_rate |-> 0, slippage |-> [kind |-> "None", value |-> 0],
                     default_order_size |-> 1, record_equity_curve |-> TRUE, record_trades |-> TRUE],
                    PassiveStrategy, VecDataSource_new(<< >>))
    /\ run = NotRunning(TRUE)
    /\ results = << >>

\* run_with_progress is entered
RunBegin ==
    /\ ~run.running
    /\ Len(results) < MaxRuns
    /\ run' = [run EXCEPT !.running = TRUE]
    /\ UNCHANGED <<engine, results>>
    /\ UNCHANGED notBacktest

\* while let Some(tick) = self.data_source.next_tick() { .. }
RunTick ==
    /\ run.running
    /\ engine.data_source.index < Len(engine.data_source.ticks)
    /\ LET tick == engine.data_source.ticks[engine.data_source.index + 1]
       IN  /\ engine' = run_tick([engine EXCEPT !.data_source.index = @ + 1], tick)
           /\ run' = [run EXCEPT
                         !.start_time = IF run.num_ticks = 0 THEN tick.timestamp ELSE @,
                         !.end_time = tick.timestamp,
                         !.num_ticks = @ + 1]
    /\ UNCHANGED results
    /\ UNCHANGED notBacktest

\* next_tick returns None: the result is built and returned
RunReturn ==
    /\ run.running
    /\ engine.data_source.index = Len(engine.data_source.ticks)
    /\ results' = Append(results, [fresh |-> run.fresh, result |-> BacktestResult_of(engine, run)])
    /\ run' = NotRunning(FALSE)
    /\ UNCHANGED engine
    /\ UNCHANGED notBacktest

Reset ==
    /\ ~run.running
    /\ Len(results) < MaxRuns
    /\ engine' = BacktestEngine_reset(engine)
    /\ run' = NotRunning(TRUE)
    /\ UNCHANGED results
    /\ UNCHANGED notBacktest

(***************************************************************************)
(* LiveMetrics shared by threads.  Of its counters quotes_generated and    *)
(* orders_submitted are kept, of its locked Decimals realized_pnl and      *)
(* unrealized_pnl, of its timestamps last_quote_time; the fields left out  *)
(* are read and written in the same way.  Every atomic operation and every *)
(* critical section of a lock is one step of the thread that makes it.     *)
(***************************************************************************)
MaxMetricCalls == 3

MetricThreads == {"t1", "t2"}

PnlAmounts == {1, 2}

\* the fields in the order in which snapshot reads them and reset clears them
MetricFields ==
    <<"quotes_generated", "orders_submitted", "realized_pnl", "unrealized_pnl", "last_quote_time">>

LiveMetrics_new ==
    [quotes_generated |-> 0, orders_submitted |-> 0, realized_pnl |-> 0,
     unrealized_pnl |-> 0, last_quote_time |-> 0]

\* Counter::increment: self.0.fetch_add(1, Ordering::Relaxed)
Counter_increment_Stale(value) == value

Counter_increment(value) == value + 1

NoMetricCall == [op |-> "none", step |-> 0, a |-> 0, b |-> 0, snap |-> LiveMetrics_new]

NothingIssued == [calls |-> 0, quotes |-> 0, submitted |-> 0, realized |-> 0, overwrites |-> FALSE]

MetricsIdle ==
    /\ metrics = LiveMetrics_new
    /\ mcall = [t \in MetricThreads |-> NoMetricCall]
    /\ seen = [t \in MetricThreads |-> {}]
    /\ issued = NothingIssued

\* thread t enters op, or is in it and has made fewer than steps steps of it
CanStep(t, op, steps) ==
    \/ mcall[t].op = "none" /\ issued.calls < MaxMetricCalls
    \/ mcall[t].op = op /\ mcall[t].step < steps

\* thread t has made one more step of op with arguments a and b, of steps in all
Stepped(t, op, a, b, steps) ==
    LET entering == mcall[t].op = "none"
        step == IF entering THEN 1 ELSE mcall[t].step + 1
    IN  mcall' = [mcall EXCEPT ![t] =
                     IF step = steps THEN NoMetricCall
                     ELSE [op |-> op, step |-> step, a |-> a, b |-> b, snap |-> LiveMetrics_new]]

\* every thread in a snapshot sees the new state of metrics go by
Observed(t) ==
    seen' = [u \in MetricThreads |->
                IF u /= t /\ mcall[u].op = "snapshot" THEN seen[u] \cup {metrics'} ELSE seen[u]]

\* record_quote(timestamp): quotes_generated.increment(), then last_quote_time.store
RecordQuote(t) ==
    /\ CanStep(t, "record_quote", 2)
    /\ IF mcall[t].op = "none"
       THEN /\ metrics' = [metrics EXCEPT !.quotes_generated = Counter_increment(@)]
            /\ issued' = [issued EXCEPT !.calls = @ + 1, !.quotes = @ + 1]
       ELSE /\ metrics' = [metrics EXCEPT !.last_quote_time = 1]
            /\ UNCHANGED issued
    /\ Stepped(t, "record_quote", 1, 0, 2)
    /\ Observed(t)
    /\ UNCHANGED notMetrics

RecordOrderSubmitted(t) ==
    /\ CanStep(t, "record_order_submitted", 1)
    /\ metrics' = [metrics EXCEPT !.orders_submitted = Counter_increment(@)]
    /\ issued' = [issued EXCEPT !.calls = @ + 1, !.submitted = @ + 1]
    /\ Stepped(t, "record_order_submitted", 0, 0, 1)
    /\ Observed(t)
    /\ UNCHANGED notMetrics

\* add_realized_pnl(amount): *rpnl += amount under the write lock
AddRealizedPnl(t) ==
    /\ CanStep(t, "add_realized_pnl", 1)
    /\ \E amount \in PnlAmounts :
          /\ metrics' = [metrics EXCEPT !.realized_pnl = @ + amount]
          /\ issued' = [issued EXCEPT !.calls = @ + 1, !.realized = @ + amount]
    /\ Stepped(t, "add_realized_pnl", 0, 0, 1)
    /\ Observed(t)
    /\ UNCHANGED notMetrics

\* update_pnl(realized, unrealized): one write lock after the other
UpdatePnl(t) ==
    /\ CanStep(t, "update_pnl", 2)
    /\ IF mcall[t].op = "none"
       THEN \E amount \in PnlAmounts :
               /\ metrics' = [metrics EXCEPT !.realized_pnl = amount]
               /\ issued' = [issued EXCEPT !.calls = @ + 1, !.overwrites = TRUE]
               /\ Stepped(t, "update_pnl", amount, amount, 2)
       ELSE /\ metrics' = [metrics EXCEPT !.unrealized_pnl = mcall[t].b]
            /\ UNCHANGED issued
            /\ Stepped(t, "update_pnl", mcall[t].a, mcall[t].b, 2)
    /\ Observed(t)
    /\ UNCHANGED notMetrics

\* reset(new_start_time): one store or one write lock after the other
MetricsReset(t) ==
    /\ CanStep(t, "reset", Len(MetricFields))
    /\ LET step == IF mcall[t].op = "none" THEN 1 ELSE mcall[t].step + 1
       IN  metrics' = [metrics EXCEPT ![MetricFields[step]] = 0]
    /\ issued' = IF mcall[t].op = "none"
                 THEN [issued EXCEPT !.calls = @ + 1, !.overwrites = TRUE] ELSE issued
    /\ Stepped(t, "reset", 0, 0, Len(MetricFields))
    /\ Observed(t)
    /\ UNCHANGED notMetrics

\* snapshot(current_time): one load or one read lock after the other; the
\* MetricsSnapshot is complete after the last of them
SnapshotRead(t) ==
    /\ CanStep(t, "snapshot", Len(MetricFields))
    /\ LET entering == mcall[t].op = "none"
           step == IF entering THEN 1 ELSE mcall[t].step + 1
           snap == IF entering THEN LiveMetrics_new ELSE mcall[t].snap
       IN  /\ mcall' = [mcall EXCEPT ![t] =
                           [op |-> "snapshot", step |-> step, a |-> 0, b |-> 0,
                            snap |-> [snap EXCEPT ![MetricFields[step]] = metrics[MetricFields[step]]]]]
           /\ seen' = [seen EXCEPT ![t] = IF entering THEN {metrics} ELSE @]
           /\ issued' = IF entering THEN [issued EXCEPT !.calls = @ + 1] ELSE issued
    /\ UNCHANGED metrics
    /\ UNCHANGED notMetrics

\* snapshot returns the MetricsSnapshot
SnapshotReturn(t) ==
    /\ mcall[t].op = "snapshot"
    /\ mcall[t].step = Len(MetricFields)
    /\ mcall' = [mcall EXCEPT ![t] = NoMetricCall]
    /\ seen' = [seen EXCEPT ![t] = {}]
    /\ UNCHANGED <<metrics, issued>>
    /\ UNCHANGED notMetrics

(***************************************************************************)
(* CorrelationMatrix and PortfolioRiskCalculator.  A correlation is        *)
(* counted in units of 1 / CorrScale, so that Decimal::ONE is CorrScale;   *)
(* positions and volatilities are whole numbers, and a variance is counted *)
(* in units of 1 / CorrScale like the correlations it sums.                *)
(***************************************************************************)
CorrScale == 2

Assets == {"BTC", "ETH", "SOL"}

AssetLists == {<<"BTC", "ETH", "SOL">>, <<"BTC", "ETH">>}

\* what set_correlation is called with, from below -1 to above 1
Correlations == (0 - CorrScale - 1)..(CorrScale + 1)

\* a PortfolioPosition: position and volatility of the assets it holds
Portfolios ==
    UNION { [held -> [position : {0 - 1, 1}, volatility : {1, 2}]] : held \in SUBSET Assets }

\* index_for(i, j, n), for the indices 0..n-1 of the code
index_for_RowFirst(i, j, n) == i * n - ((i * (i + 1)) \div 2) + j

index_for(i, j, n) ==
    LET row == IF i <= j THEN i ELSE j
        col == IF i <= j THEN j ELSE i
    IN  row * n - ((row * (row + 1)) \div 2) + col

CorrelationMatrix_new(assets) ==
    LET n == Len(assets)
    IN  [assets |-> assets,
         correlations |-> [k \in 1..((n * (n + 1)) \div 2) |->
                              IF \E i \in 0..(n - 1) : index_for(i, i, n) + 1 = k
                              THEN CorrScale ELSE 0],
         last_update |-> 0]

\* asset_index: the first position of the asset, counted from 0, or -1 for None
asset_index(self, asset) ==
    IF \E k \in 1..Len(self.assets) : self.assets[k] = asset
    THEN (CHOOSE k \in 1..Len(self.assets) :
              /\ self.assets[k] = asset
              /\ \A l \in 1..(k - 1) : self.assets[l] /= asset) - 1
    ELSE 0 - 1

NoCorrelation == [some |-> FALSE, value |-> 0]

get_correlation(self, asset1, asset2) ==
    LET i == asset_index(self, asset1)
        j == asset_index(self, asset2)
    IN  IF i < 0 \/ j < 0 THEN NoCorrelation
        ELSE [some |-> TRUE,
              value |-> self.correlations[index_for(i, j, Len(self.assets)) + 1]]

\* set_correlation: the matrix it leaves and whether it returned Ok
set_correlation(self, asset1, asset2, correlation) ==
    LET i == asset_index(self, asset1)
        j == asset_index(self, asset2)
    IN  IF correlation < 0 - CorrScale \/ correlation > CorrScale
        THEN [matrix |-> self, ok |-> FALSE]
        ELSE IF i < 0 \/ j < 0 THEN [matrix |-> self, ok |-> FALSE]
        ELSE IF i = j /\ correlation /= CorrScale THEN [matrix |-> self, ok |-> FALSE]
        ELSE [matrix |-> [self EXCEPT
                             !.correlations[index_for(i, j, Len(self.assets)) + 1] = correlation],
              ok |-> TRUE]

RECURSIVE variance_sum(_, _, _)
\* the double loop of portfolio_variance over the pairs of held assets
variance_sum(self, portfolio, pairs) ==
    IF pairs = {} THEN 0
    ELSE LET p == CHOOSE x \in pairs : TRUE
             found == get_correlation(self, p[1], p[2])
             correlation == IF found.some THEN found.value
                            ELSE IF p[1] = p[2] THEN CorrScale ELSE 0
         IN  portfolio[p[1]].position * portfolio[p[2]].position
                 * portfolio[p[1]].volatility * portfolio[p[2]].volatility * correlation
             + variance_sum(self, portfolio, pairs \ {p})

portfolio_variance(self, portfolio) ==
    variance_sum(self, portfolio, (DOMAIN portfolio) \X (DOMAIN portfolio))

CorrelationIdle ==
    /\ correlation_matrix = CorrelationMatrix_new(<< >>)
    /\ set_result = "Ok"

SetCorrelation ==
    \E asset1 \in Assets, asset2 \in Assets, correlation \in Correlations :
        LET r == set_correlation(correlation_matrix, asset1, asset2, correlation)
        IN  /\ correlation_matrix' = r.matrix
            /\ set_result' = IF r.ok THEN "Ok" ELSE "Err"
            /\ UNCHANGED notCorrelation

(***************************************************************************)
(* Grid strategy.  grid_spacing is counted in units of 1 / DecScale and so *)
(* are the prices of the orders; reference prices, inventories and the     *)
(* sizes of a plain grid are whole.  The sizes of an inventory-aware grid  *)
(* are counted in units of 1 / DecScale.                                   *)
(***************************************************************************)
MaxLevels == 2

\* what GridConfig::new is called with
GridLevels == 0..MaxLevels

GridSpacings == {0, 1, DecScale \div 2, DecScale}

GridSizes == {0, 1}

GridMaxPositions == {0, 1, 2}

Inventories == (0 - 3)..3

ReferencePrices == {1, 2, 3}

NoProgression == [some |-> FALSE, value |-> 0]

\* GridConfig::new: is the configuration accepted
GridConfig_new_ok(levels_per_side, grid_spacing, base_size, max_position) ==
    /\ ~(levels_per_side = 0)
    /\ ~(grid_spacing <= 0)
    /\ ~(base_size <= 0)
    /\ ~(max_position <= 0)

GridConfig_new(levels_per_side, grid_spacing, base_size, max_position) ==
    [levels_per_side |-> levels_per_side, grid_spacing |-> grid_spacing,
     base_size |-> base_size, size_progression |-> NoProgression,
     max_position |-> max_position, spacing_type |-> "Geometric"]

with_size_progression(cfg, progression) ==
    [cfg EXCEPT !.size_progression = [some |-> TRUE, value |-> progression]]

with_spacing_type(cfg, spacing_type) == [cfg EXCEPT !.spacing_type = spacing_type]

GridStrategy_new(cfg) == [config |-> cfg, reference_price |-> 0]

GridOrder_new(price, size, side, level) ==
    [price |-> price, size |-> size, side |-> side, level |-> level]

\* the price of a level, in units of 1 / DecScale
calculate_price(self, reference_price, level) ==
    IF self.config.spacing_type = "Geometric"
    THEN reference_price * (DecScale + level * self.config.grid_spacing)
    ELSE reference_price * DecScale + level * self.config.grid_spacing * reference_price

calculate_level_size(self, level) ==
    IF self.config.size_progression.some
    THEN self.config.base_size
             * (1 + SaturatingSub(AbsInt(level), 1) * self.config.size_progression.value)
    ELSE self.config.base_size

RECURSIVE sort_by_price(_)
\* orders.sort_by(|a, b| a.price.cmp(&b.price)): a stable sort
sort_by_price(list) ==
    IF Len(list) <= 1 THEN list
    ELSE LET sorted == sort_by_price(SubSeq(list, 1, Len(list) - 1))
             last == list[Len(list)]
             before == SelectSeq(sorted, LAMBDA g : g.price <= last.price)
             after == SelectSeq(sorted, LAMBDA g : g.price > last.price)
         IN  before \o <<last>> \o after

\* the orders in the order in which the two loops push them
grid_levels(self, reference_price) ==
    [k \in 1..(2 * self.config.levels_per_side) |->
        IF k <= self.config.levels_per_side
        THEN GridOrder_new(calculate_price(self, reference_price, 0 - k),
                           calculate_level_size(self, k), "Buy", 0 - k)
        ELSE GridOrder_new(calculate_price(self, reference_price, k - self.config.levels_per_side),
                           calculate_level_size(self, k - self.config.levels_per_side),
                           "Sell", k - self.config.levels_per_side)]

generate_grid_Unsorted(self, reference_price) == grid_levels(self, reference_price)

generate_grid(self, reference_price) == sort_by_price(grid_levels(self, reference_price))

\* (Decimal::ONE - inventory_ratio).max(Decimal::ZERO), in units of 1 / DecScale
scale_factor(self, current_inventory) ==
    LET inventory_ratio == DecDiv(AbsInt(current_inventory) * DecScale, self.config.max_position)
    IN  IF DecScale - inventory_ratio > 0 THEN DecScale - inventory_ratio ELSE 0

\* the loop over the orders: the size of the side that adds to the position
\* is scaled, the other side keeps its size
reduce_sizes(self, list, current_inventory) ==
    [i \in DOMAIN list |->
        LET should_reduce == \/ (current_inventory > 0 /\ list[i].side = "Buy")
                             \/ (current_inventory < 0 /\ list[i].side = "Sell")
        IN  [list[i] EXCEPT !.size = IF should_reduce
                                     THEN list[i].size * scale_factor(self, current_inventory)
                                     ELSE list[i].size * DecScale]]

generate_grid_with_inventory_KeepsAll(self, reference_price, current_inventory) ==
    reduce_sizes(self, generate_grid(self, reference_price), current_inventory)

\* the threshold of retain, 0.00000001, lies below one unit of size, so a
\* size passes it exactly when it is positive
generate_grid_with_inventory(self, reference_price, current_inventory) ==
    SelectSeq(reduce_sizes(self, generate_grid(self, reference_price), current_inventory),
              LAMBDA g : g.size > 0)

GridIdle ==
    /\ grid = GridStrategy_new(GridConfig_new(1, 1, 1, 1))
    /\ grid_orders = << >>

UpdateReferencePrice ==
    /\ \E price \in ReferencePrices : grid' = [grid EXCEPT !.reference_price = price]
    /\ UNCHANGED grid_orders
    /\ UNCHANGED notGrid

GenerateGrid ==
    /\ \E reference_price \in ReferencePrices :
          grid_orders' = generate_grid(grid, reference_price)
    /\ UNCHANGED grid
    /\ UNCHANGED notGrid

(***************************************************************************)
(* Exact fractions n / d with d > 0.  The GLFT calculators divide by the   *)
(* session length and by the length of a year, so their Decimals are kept  *)
(* as fractions in lowest terms and compared by cross-multiplication.      *)
(***************************************************************************)
RECURSIVE GCD(_, _)
GCD(a, b) == IF b = 0 THEN a ELSE GCD(b, a % b)

Rat(n, d) == [n |-> n \div GCD(AbsInt(n), d), d |-> d \div GCD(AbsInt(n), d)]

Whole(n) == Rat(n, 1)

RatAdd(a, b) == Rat(a.n * b.d + b.n * a.d, a.d * b.d)

RatSub(a, b) == Rat(a.n * b.d - b.n * a.d, a.d * b.d)

RatMul(a, b) == Rat(a.n * b.n, a.d * b.d)

\* only for b # 0
RatDiv(a, b) == IF b.n > 0 THEN Rat(a.n * b.d, a.d * b.n)
                           ELSE Rat(0 - (a.n * b.d), a.d * (0 - b.n))

RatLt(a, b) == a.n * b.d < b.n * a.d

RatLe(a, b) == a.n * b.d <= b.n * a.d

RatEq(a, b) == a.n * b.d = b.n * a.d

RatMax(a, b) == IF RatLt(a, b) THEN b ELSE a

(***************************************************************************)
(* GLFT strategy.  The clock counts in units of which MsPerYear make a     *)
(* year, in place of the 31,536,000,000 milliseconds of the code.          *)
(***************************************************************************)
MsPerYear == 2

MaxTerminal == 2

\* what GLFTConfig::new and the builders are called with
GLFTDecimals == {0 - 1, 0, 1}

TerminalTimes == 0..MaxTerminal

MinSpreads == {0 - 1, 0, 4}

NoScaling == [some |-> FALSE, value |-> 0]

GammaScalings ==
    {NoScaling} \cup { [some |-> TRUE, value |-> a] : a \in {1, 0 - 1, 0 - 3} }

PenaltyFunctions == {"Linear", "Exponential", "Quadratic"}

\* what the calculators are called with
MidPrices == {0, 1, 3}

GLFTInventories == {0 - 2, 0 - 1, 0, 1, 2}

Volatilities == {0, 1, 4}

CurrentTimes == 0..(MaxTerminal + 1)

\* GLFTConfig::new: is the configuration accepted
GLFTConfig_new_ok(risk_aversion, order_intensity, terminal_penalty, terminal_time, min_spread) ==
    /\ ~(risk_aversion <= 0)
    /\ ~(order_intensity <= 0)
    /\ ~(terminal_penalty < 0)
    /\ ~(terminal_time = 0)
    /\ ~(min_spread < 0)

GLFTConfig_new(risk_aversion, order_intensity, terminal_penalty, terminal_time, min_spread) ==
    [risk_aversion |-> Whole(risk_aversion), order_intensity |-> Whole(order_intensity),
     terminal_penalty |-> Whole(terminal_penalty), terminal_time |-> terminal_time,
     min_spread |-> Whole(min_spread), dynamic_gamma |-> FALSE,
     gamma_scaling_factor |-> Whole(1), penalty_function |-> "Linear"]

with_dynamic_gamma(cfg, scaling_factor) ==
    [cfg EXCEPT !.dynamic_gamma = TRUE, !.gamma_scaling_factor = Whole(scaling_factor)]

with_penalty_function(cfg, penalty_function) ==
    [cfg EXCEPT !.penalty_function = penalty_function]

\* the results of the calculators
GLFTOk(value) == [kind |-> "Ok", value |-> value]

QuotesOk(bid_price, ask_price) == [kind |-> "Ok", bid |-> bid_price, ask |-> ask_price]

GLFTErr(error) == [kind |-> error]

\* a Decimal division by zero does not return
GLFTPanic == [kind |-> "panic"]

\* types::decimal::decimal_powi with exponent 2
decimal_powi_2(x) == RatMul(x, x)

\* types::decimal::decimal_ln: an error for a non-positive argument; the
\* logarithm itself is taken by its first approximant 2 (x - 1) / (x + 1),
\* which has the sign of ln x and grows with x
decimal_ln(x) ==
    IF x.n <= 0 THEN GLFTErr("NumericError")
    ELSE GLFTOk(RatDiv(RatMul(Whole(2), RatSub(x, Whole(1))), RatAdd(x, Whole(1))))

ms_to_years(ms) == Rat(ms, MsPerYear)

calculate_dynamic_gamma(base_gamma, time_to_terminal_ms, total_session_ms, dynamic_enabled, scaling_factor) ==
    IF ~dynamic_enabled \/ total_session_ms = 0 THEN base_gamma
    ELSE LET time_ratio == Rat(time_to_terminal_ms, total_session_ms)
             time_factor == RatSub(Whole(1), time_ratio)
         IN  RatMul(base_gamma, RatAdd(Whole(1), RatMul(scaling_factor, time_factor)))

calculate_penalty_function(time_to_terminal_ms, total_session_ms, penalty_type) ==
    IF total_session_ms = 0 THEN Whole(1)
    ELSE LET time_ratio == Rat(time_to_terminal_ms, total_session_ms)
             neg_ratio == RatSub(Whole(0), time_ratio)
             factor == RatSub(Whole(1), time_ratio)
         IN  CASE penalty_type = "Linear" -> RatSub(Whole(1), time_ratio)
               [] penalty_type = "Exponential" ->
                      RatAdd(RatAdd(Whole(1), neg_ratio),
                             RatDiv(RatMul(neg_ratio, neg_ratio), Whole(2)))
               [] penalty_type = "Quadratic" -> RatMul(factor, factor)

effective_gamma_of(cfg, current_time) ==
    calculate_dynamic_gamma(cfg.risk_aversion, SaturatingSub(cfg.terminal_time, current_time),
                            cfg.terminal_time, cfg.dynamic_gamma, cfg.gamma_scaling_factor)

\* the reservation price without the terminal penalty term
calculate_reservation_price_NoPenalty(mid, inventory, cfg, volatility, current_time) ==
    IF mid <= 0 THEN GLFTErr("InvalidMarketState")
    ELSE IF volatility <= 0 THEN GLFTErr("InvalidMarketState")
    ELSE LET time_to_terminal_ms == SaturatingSub(cfg.terminal_time, current_time)
             as_adjustment ==
                 RatMul(RatMul(RatMul(Whole(inventory), effective_gamma_of(cfg, current_time)),
                               decimal_powi_2(Whole(volatility))),
                        ms_to_years(time_to_terminal_ms))
         IN  GLFTOk(RatSub(Whole(mid), as_adjustment))

calculate_reservation_price(mid, inventory, cfg, volatility, current_time) ==
    IF mid <= 0 THEN GLFTErr("InvalidMarketState")
    ELSE IF volatility <= 0 THEN GLFTErr("InvalidMarketState")
    ELSE LET time_to_terminal_ms == SaturatingSub(cfg.terminal_time, current_time)
             as_adjustment ==
                 RatMul(RatMul(RatMul(Whole(inventory), effective_gamma_of(cfg, current_time)),
                               decimal_powi_2(Whole(volatility))),
                        ms_to_years(time_to_terminal_ms))
             penalty_value == calculate_penalty_function(time_to_terminal_ms, cfg.terminal_time,
                                                         cfg.penalty_function)
             terminal_adjustment ==
                 RatMul(RatMul(Whole(inventory), cfg.terminal_penalty), penalty_value)
         IN  GLFTOk(RatSub(RatSub(Whole(mid), as_adjustment), terminal_adjustment))

calculate_optimal_spread(cfg, volatility, current_time) ==
    IF volatility <= 0 THEN GLFTErr("InvalidMarketState")
    ELSE LET time_to_terminal_ms == SaturatingSub(cfg.terminal_time, current_time)
             effective_gamma == effective_gamma_of(cfg, current_time)
             inventory_risk_term ==
                 RatMul(RatMul(effective_gamma, decimal_powi_2(Whole(volatility))),
                        ms_to_years(time_to_terminal_ms))
             adverse_selection_inner ==
                 RatAdd(Whole(1), RatDiv(effective_gamma, cfg.order_intensity))
             adverse_selection_ln == decimal_ln(adverse_selection_inner)
         IN  IF adverse_selection_ln.kind # "Ok" THEN adverse_selection_ln
             ELSE IF effective_gamma.n = 0 THEN GLFTPanic
             ELSE GLFTOk(RatMax(RatAdd(inventory_risk_term,
                                       RatMul(RatDiv(Whole(2), effective_gamma),
                                              adverse_selection_ln.value)),
                                cfg.min_spread))

\* the validation of the two prices, without the check of the bid's sign
validate_quotes_NoBidCheck(bid_price, ask_price) ==
    IF RatLe(ask_price, bid_price) THEN GLFTErr("InvalidQuoteGeneration")
    ELSE QuotesOk(bid_price, ask_price)

\* the validation of the two prices
validate_quotes(bid_price, ask_price) ==
    IF RatLe(ask_price, bid_price) THEN GLFTErr("InvalidQuoteGeneration")
    ELSE IF RatLe(bid_price, Whole(0)) THEN GLFTErr("InvalidQuoteGeneration")
    ELSE QuotesOk(bid_price, ask_price)

\* the two prices as computed, before their validation
computed_quotes(mid, inventory, cfg, volatility, current_time) ==
    LET reservation_price == calculate_reservation_price(mid, inventory, cfg, volatility, current_time)
        spread == calculate_optimal_spread(cfg, volatility, current_time)
    IN  IF reservation_price.kind # "Ok" THEN reservation_price
        ELSE IF spread.kind # "Ok" THEN spread
        ELSE LET half_spread == RatDiv(spread.value, Whole(2))
             IN  QuotesOk(RatSub(reservation_price.value, half_spread),
                          RatAdd(reservation_price.value, half_spread))

calculate_optimal_quotes(mid, inventory, cfg, volatility, current_time) ==
    LET computed == computed_quotes(mid, inventory, cfg, volatility, current_time)
    IN  IF computed.kind # "Ok" THEN computed
        ELSE validate_quotes(computed.bid, computed.ask)

NoGLFTCall == [op |-> "none"]

GLFTArgs(op, mid, inventory, volatility, current_time) ==
    [op |-> op, mid |-> mid, inventory |-> inventory,
     volatility |-> volatility, current_time |-> current_time]

GLFTIdle ==
    /\ glft_config = GLFTConfig_new(1, 1, 0, 1, 0)
    /\ glft_args = NoGLFTCall
    /\ glft_result = NoGLFTCall

CalculateReservationPrice ==
    /\ glft_args = NoGLFTCall
    /\ \E mid \in MidPrices, inventory \in GLFTInventories,
          volatility \in Volatilities, current_time \in CurrentTimes :
          /\ glft_args' = GLFTArgs("calculate_reservation_price", mid, inventory,
                                   volatility, current_time)
          /\ glft_result' = calculate_reservation_price(mid, inventory, glft_config,
                                                        volatility, current_time)
    /\ UNCHANGED glft_config
    /\ UNCHANGED notGLFT

CalculateOptimalQuotes ==
    /\ glft_args = NoGLFTCall
    /\ \E mid \in MidPrices, inventory \in GLFTInventories,
          volatility \in Volatilities, current_time \in CurrentTimes :
          /\ glft_args' = GLFTArgs("calculate_optimal_quotes", mid, inventory,
                                   volatility, current_time)
          /\ glft_result' = calculate_optimal_quotes(mid, inventory, glft_config,
                                                     volatility, current_time)
    /\ UNCHANGED glft_config
    /\ UNCHANGED notGLFT

(***************************************************************************)
(* Failure at the boundary: ThreadSafeOrderManager::read / write on a      *)
(* poisoned lock, and the divisions of calculate_skew_adjustment.          *)
(***************************************************************************)
LockThreads == {"t1", "t2"}

\* what GreeksLimits::new and calculate_skew_adjustment are called with
GreekLimits == {0, 1, 2}

GreekValues == {0 - 1, 0, 1}

NoSkewCall == [kind |-> "none"]

\* self.inner.read().unwrap() and self.inner.write().unwrap(): the lock hands
\* out Err(PoisonError) once a writer has panicked, and unwrap panics on it
lock_unwrap(is_poisoned) == IF is_poisoned THEN "panicked on the lock" ELSE "returned"

\* bid_adj and ask_adj floored at 0.5
floor_adjustment(adj) == IF RatLt(Rat(1, 2), adj) THEN adj ELSE Rat(1, 2)

calculate_skew_adjustment(option_delta, portfolio_delta, portfolio_gamma, max_delta, max_gamma) ==
    IF max_delta = 0 THEN [kind |-> "panic"]
    ELSE IF max_gamma = 0 THEN [kind |-> "panic"]
    ELSE LET delta_utilization == Rat(AbsInt(portfolio_delta), max_delta)
             widen == RatLt(Rat(1, 2), delta_utilization)
             long == widen /\ portfolio_delta > 0 /\ option_delta > 0
             short == widen /\ ~long /\ portfolio_delta < 0 /\ option_delta < 0
             bid_1 == IF long THEN RatAdd(Whole(1), RatMul(delta_utilization, Rat(1, 2)))
                      ELSE IF short THEN RatSub(Whole(1), RatMul(delta_utilization, Rat(1, 5)))
                      ELSE Whole(1)
             ask_1 == IF long THEN RatSub(Whole(1), RatMul(delta_utilization, Rat(1, 5)))
                      ELSE IF short THEN RatAdd(Whole(1), RatMul(delta_utilization, Rat(1, 2)))
                      ELSE Whole(1)
             gamma_utilization == Rat(AbsInt(portfolio_gamma), max_gamma)
             gamma_adj == IF RatLt(Rat(1, 2), gamma_utilization)
                          THEN RatMul(gamma_utilization, Rat(3, 10))
                          ELSE Whole(0)
         IN  [kind |-> "Ok", bid_adj |-> floor_adjustment(RatAdd(bid_1, gamma_adj)),
              ask_adj |-> floor_adjustment(RatAdd(ask_1, gamma_adj))]

BoundaryIdle ==
    /\ poisoned = FALSE
    /\ write_guard = {}
    /\ access = [t \in LockThreads |-> "idle"]
    /\ skew_args = NoSkewCall
    /\ skew_result = NoSkewCall

\* write(f): the guard is taken, or the unwrap panics
WriteAccess(t) ==
    /\ write_guard = {}
    /\ access[t] # "writing"
    /\ IF poisoned
       THEN /\ access' = [access EXCEPT ![t] = lock_unwrap(poisoned)]
            /\ UNCHANGED write_guard
       ELSE /\ access' = [access EXCEPT ![t] = "writing"]
            /\ write_guard' = {t}
    /\ UNCHANGED <<poisoned, skew_args, skew_result>>
    /\ UNCHANGED notBoundary

\* f returns and the guard is dropped
ClosureReturns(t) ==
    /\ t \in write_guard
    /\ write_guard' = {}
    /\ access' = [access EXCEPT ![t] = "returned"]
    /\ UNCHANGED <<poisoned, skew_args, skew_result>>
    /\ UNCHANGED notBoundary

\* f panics: the guard is dropped while unwinding, which poisons the lock
ClosurePanics(t) ==
    /\ t \in write_guard
    /\ write_guard' = {}
    /\ poisoned' = TRUE
    /\ access' = [access EXCEPT ![t] = "closure panicked"]
    /\ UNCHANGED <<skew_args, skew_result>>
    /\ UNCHANGED notBoundary

\* read(f) with a closure that returns
ReadAccess(t) ==
    /\ write_guard = {}
    /\ access' = [access EXCEPT ![t] = lock_unwrap(poisoned)]
    /\ UNCHANGED <<poisoned, write_guard, skew_args, skew_result>>
    /\ UNCHANGED notBoundary

CalculateSkewAdjustment ==
    /\ \E option_delta \in GreekValues, portfolio_delta \in GreekValues,
          portfolio_gamma \in GreekValues, max_delta \in GreekLimits, max_gamma \in GreekLimits :
          /\ skew_args' = [kind |-> "calculate_skew_adjustment", option_delta |-> option_delta,
                           portfolio_delta |-> portfolio_delta, portfolio_gamma |-> portfolio_gamma,
                           max_delta |-> max_delta, max_gamma |-> max_gamma]
          /\ skew_result' = calculate_skew_adjustment(option_delta, portfolio_delta,
                                                      portfolio_gamma, max_delta, max_gamma)
    /\ UNCHANGED <<poisoned, write_guard, access>>
    /\ UNCHANGED notBoundary

ManagerEmpty ==
    /\ orders = OrderManager_new.orders
    /\ orders_by_exchange_id = OrderManager_new.orders_by_exchange_id
    /\ open_orders_by_symbol = OrderManager_new.open_orders_by_symbol

OMInit ==
    /\ config \in Configs
    /\ ManagerEmpty
    /\ TSIdle
    /\ AMIdle
    /\ NewIdle
    /\ BoundaryIdle
    /\ GLFTIdle
    /\ GridIdle
    /\ CorrelationIdle
    /\ MetricsIdle
    /\ BacktestIdle
    /\ RiskIdle

(***************************************************************************)
(* Spec: one order followed in depth.  A single client id, every response  *)
(* status, two exchange ids, fills at two prices.                          *)
(***************************************************************************)
OneClient == {"c1"}

OMNext ==
    \/ RegisterOrder(OneClient, DepthRequests, DepthTimes)
    \/ UpdateOrder(OneClient \X DepthResponses, DepthTimes)
    \/ RecordFill(DepthFills, DepthTimes)
    \/ MarkCancelled(OneClient, DepthTimes)
    \/ CheckTimeouts(Times)
    \/ Cleanup(Retentions, Times)

Spec == OMInit /\ [][OMNext]_vars

(***************************************************************************)
(* SpecBook: two orders side by side.  Two client ids, every request,      *)
(* two registration times, so that orders share a symbol, compete for the  *)
(* open-order limit and differ in age.                                     *)
(***************************************************************************)
BookInit == OMInit /\ config \in BookConfigs

BookNext ==
    \/ RegisterOrder(ClientIds, BookRequests, BookTimes)
    \/ UpdateOrder(BookAcks, BookLaterTimes)
    \/ RecordFill(BookFills, BookLaterTimes)
    \/ MarkCancelled(ClientIds, BookLaterTimes)
    \/ CheckTimeouts(Times)
    \/ Cleanup(Retentions, Times)

SpecBook == BookInit /\ [][BookNext]_vars

(***************************************************************************)
(* SpecTS: two threads share a ThreadSafeOrderManager built with_defaults. *)
(***************************************************************************)
TSInit ==
    /\ config = OrderManagerConfig_default
    /\ ManagerEmpty
    /\ TSIdle
    /\ AMIdle
    /\ NewIdle
    /\ BoundaryIdle
    /\ GLFTIdle
    /\ GridIdle
    /\ CorrelationIdle
    /\ MetricsIdle
    /\ BacktestIdle
    /\ RiskIdle

TSNext ==
    \E t \in Threads :
        \/ AcquireWrite(t)
        \/ WriteFirst(t)
        \/ WriteSecond(t)
        \/ ReleaseWrite(t)
        \/ AcquireRead(t)
        \/ ReadIndex(t)
        \/ ReadOrders(t)
        \/ ReleaseRead(t)

SpecTS == TSInit /\ [][TSNext]_vars

(***************************************************************************)
(* SpecAlert: one AlertManager driven by one caller.                       *)
(***************************************************************************)
AlertInit ==
    /\ config = OrderManagerConfig_default
    /\ ManagerEmpty
    /\ TSIdle
    /\ \E limit \in HistoryLimits, window \in DedupWindows :
          /\ handlers = AlertManager_new(limit, window).handlers
          /\ alert_history = AlertManager_new(limit, window).alert_history
          /\ max_history = AlertManager_new(limit, window).max_history
          /\ dedup_window_ms = AlertManager_new(limit, window).dedup_window_ms
          /\ recent_alerts = AlertManager_new(limit, window).recent_alerts
    /\ ALERT_COUNTER = 0
    /\ NewIdle
    /\ BoundaryIdle
    /\ GLFTIdle
    /\ GridIdle
    /\ CorrelationIdle
    /\ MetricsIdle
    /\ BacktestIdle
    /\ RiskIdle

AlertNext ==
    \/ AddHandler
    \/ Raise
    \/ Acknowledge
    \/ AcknowledgeAll
    \/ AlertCleanup
    \/ ClearHistory
    \/ AlertQueries

SpecAlert == AlertInit /\ [][AlertNext]_vars

(***************************************************************************)
(* SpecDispatch: one AlertManager with handlers of several thresholds,     *)
(* added before, between and after the raises.                             *)
(***************************************************************************)
DispatchNext ==
    \/ AddDispatchHandler
    \/ RaiseDispatch

SpecDispatch == AlertInit /\ [][DispatchNext]_vars

(***************************************************************************)
(* SpecNew: three threads build alerts side by side.                       *)
(***************************************************************************)
NewInit ==
    /\ config = OrderManagerConfig_default
    /\ ManagerEmpty
    /\ TSIdle
    /\ AMIdle
    /\ NewIdle
    /\ BoundaryIdle
    /\ GLFTIdle
    /\ GridIdle
    /\ CorrelationIdle
    /\ MetricsIdle
    /\ BacktestIdle
    /\ RiskIdle

NewNext ==
    \E t \in Threads :
        \/ DrawCounter(t)
        \/ ReturnAlert(t)

SpecNew == NewInit /\ [][NewNext]_vars

(***************************************************************************)
(* SpecRisk: every accepted RiskLimits, and one call of check_order with   *)
(* every position, order size and price of the alphabets.                  *)
(***************************************************************************)
RiskInit ==
    /\ config = OrderManagerConfig_default
    /\ ManagerEmpty
    /\ TSIdle
    /\ AMIdle
    /\ NewIdle
    /\ BoundaryIdle
    /\ GLFTIdle
    /\ GridIdle
    /\ CorrelationIdle
    /\ MetricsIdle
    /\ BacktestIdle
    /\ \E max_position \in LimitValues, max_notional \in LimitValues,
          scaling_factor \in LimitValues :
          /\ RiskLimits_new_ok(max_position, max_notional, scaling_factor)
          /\ limits = RiskLimits_new(max_position, max_notional, scaling_factor)
    /\ \E current_position \in Positions, order_size \in Positions, price \in Prices :
          check_args = [current_position |-> current_position,
                        order_size |-> order_size, price |-> price]
    /\ check_pc = "called"
    /\ check_result = CheckErr

SpecRisk == RiskInit /\ [][CheckOrder]_vars

(***************************************************************************)
(* SpecBacktest: an engine built from every configuration, strategy and    *)
(* tape of the alphabets is run, reset and run again.                      *)
(***************************************************************************)
BacktestInit ==
    /\ config = OrderManagerConfig_default
    /\ ManagerEmpty
    /\ TSIdle
    /\ AMIdle
    /\ NewIdle
    /\ BoundaryIdle
    /\ GLFTIdle
    /\ GridIdle
    /\ CorrelationIdle
    /\ MetricsIdle
    /\ RiskIdle
    /\ \E cfg \in BacktestConfigs, strategy \in Strategies, prices \in Tapes :
          engine = BacktestEngine_new(cfg, strategy, VecDataSource_new(prices))
    /\ run = NotRunning(TRUE)
    /\ results = << >>

BacktestNext ==
    \/ RunBegin
    \/ RunTick
    \/ RunReturn
    \/ Reset

SpecBacktest == BacktestInit /\ [][BacktestNext]_vars

(***************************************************************************)
(* SpecMetrics: two threads call into one LiveMetrics.                     *)
(***************************************************************************)
MetricsInit ==
    /\ config = OrderManagerConfig_default
    /\ ManagerEmpty
    /\ TSIdle
    /\ AMIdle
    /\ NewIdle
    /\ BoundaryIdle
    /\ GLFTIdle
    /\ GridIdle
    /\ CorrelationIdle
    /\ BacktestIdle
    /\ RiskIdle
    /\ MetricsIdle

MetricsNext ==
    \E t \in MetricThreads :
        \/ RecordQuote(t)
        \/ RecordOrderSubmitted(t)
        \/ AddRealizedPnl(t)
        \/ UpdatePnl(t)
        \/ MetricsReset(t)
        \/ SnapshotRead(t)
        \/ SnapshotReturn(t)

SpecMetrics == MetricsInit /\ [][MetricsNext]_vars

(***************************************************************************)
(* SpecCorrelation: a matrix over three assets, or over two of them, takes *)
(* every set_correlation of the alphabets.                                 *)
(***************************************************************************)
CorrelationInit ==
    /\ config = OrderManagerConfig_default
    /\ ManagerEmpty
    /\ TSIdle
    /\ AMIdle
    /\ NewIdle
    /\ BoundaryIdle
    /\ GLFTIdle
    /\ GridIdle
    /\ MetricsIdle
    /\ BacktestIdle
    /\ RiskIdle
    /\ \E assets \in AssetLists : correlation_matrix = CorrelationMatrix_new(assets)
    /\ set_result = "Ok"

SpecCorrelation == CorrelationInit /\ [][SetCorrelation]_vars

GenerateGridWithInventory ==
    /\ \E reference_price \in ReferencePrices, current_inventory \in Inventories :
          grid_orders' = generate_grid_with_inventory(grid, reference_price, current_inventory)
    /\ UNCHANGED grid
    /\ UNCHANGED notGrid

(***************************************************************************)
(* SpecGrid: a strategy over every accepted configuration of the alphabets *)
(* generates grids around every reference price.                           *)
(***************************************************************************)
GridInit ==
    /\ config = OrderManagerConfig_default
    /\ ManagerEmpty
    /\ TSIdle
    /\ AMIdle
    /\ NewIdle
    /\ BoundaryIdle
    /\ GLFTIdle
    /\ CorrelationIdle
    /\ MetricsIdle
    /\ BacktestIdle
    /\ RiskIdle
    /\ \E levels_per_side \in GridLevels, grid_spacing \in GridSpacings,
          base_size \in GridSizes, max_position \in GridMaxPositions,
          progression \in {NoProgression, [some |-> TRUE, value |-> 1]},
          spacing_type \in {"Geometric", "Arithmetic"} :
          /\ GridConfig_new_ok(levels_per_side, grid_spacing, base_size, max_position)
          /\ grid = GridStrategy_new(
                        with_spacing_type(
                            IF progression.some
                            THEN with_size_progression(
                                     GridConfig_new(levels_per_side, grid_spacing, base_size, max_position),
                                     progression.value)
                            ELSE GridConfig_new(levels_per_side, grid_spacing, base_size, max_position),
                            spacing_type))
    /\ grid_orders = << >>

GridNext ==
    \/ UpdateReferencePrice
    \/ GenerateGrid
    \/ GenerateGridWithInventory

SpecGrid == GridInit /\ [][GridNext]_vars

(***************************************************************************)
(* SpecGLFT: the calculators are called under every accepted configuration *)
(* of the alphabets.                                                       *)
(***************************************************************************)
GLFTInit ==
    /\ config = OrderManagerConfig_default
    /\ ManagerEmpty
    /\ TSIdle
    /\ AMIdle
    /\ NewIdle
    /\ BoundaryIdle
    /\ CorrelationIdle
    /\ MetricsIdle
    /\ BacktestIdle
    /\ RiskIdle
    /\ GridIdle
    /\ \E risk_aversion \in GLFTDecimals, order_intensity \in GLFTDecimals,
          terminal_penalty \in GLFTDecimals, terminal_time \in TerminalTimes,
          min_spread \in MinSpreads, scaling \in GammaScalings,
          penalty_function \in PenaltyFunctions :
          /\ GLFTConfig_new_ok(risk_aversion, order_intensity, terminal_penalty,
                               terminal_time, min_spread)
          /\ glft_config =
                 with_penalty_function(
                     IF scaling.some
                     THEN with_dynamic_gamma(
                              GLFTConfig_new(risk_aversion, order_intensity, terminal_penalty,
                                             terminal_time, min_spread),
                              scaling.value)
                     ELSE GLFTConfig_new(risk_aversion, order_intensity, terminal_penalty,
                                         terminal_time, min_spread),
                     penalty_function)
    /\ glft_args = NoGLFTCall
    /\ glft_result = NoGLFTCall

\* the caller has taken the result
GLFTReturn ==
    /\ glft_args # NoGLFTCall
    /\ glft_args' = NoGLFTCall
    /\ glft_result' = NoGLFTCall
    /\ UNCHANGED glft_config
    /\ UNCHANGED notGLFT

GLFTNext ==
    \/ CalculateReservationPrice
    \/ CalculateOptimalQuotes
    \/ GLFTReturn

SpecGLFT == GLFTInit /\ [][GLFTNext]_vars

(***************************************************************************)
(* SpecBoundary: two threads go through the lock with closures that return *)
(* or panic, and the skew adjustment is computed under every limit.        *)
(***************************************************************************)
BoundaryInit ==
    /\ config = OrderManagerConfig_default
    /\ ManagerEmpty
    /\ TSIdle
    /\ AMIdle
    /\ NewIdle
    /\ CorrelationIdle
    /\ MetricsIdle
    /\ BacktestIdle
    /\ RiskIdle
    /\ GridIdle
    /\ GLFTIdle
    /\ BoundaryIdle

BoundaryNext ==
    \/ \E t \in LockThreads : WriteAccess(t)
    \/ \E t \in LockThreads : ClosureReturns(t)
    \/ \E t \in LockThreads : ClosurePanics(t)
    \/ \E t \in LockThreads : ReadAccess(t)
    \/ CalculateSkewAdjustment

SpecBoundary == BoundaryInit /\ [][BoundaryNext]_vars

(***************************************************************************)
(* Claims about the order manager.  A claim about what a call does is      *)
(* stated over every reachable manager and every argument of the call.     *)
(***************************************************************************)
NonTerminalKinds == {"Pending", "Open", "PartiallyFilled"}

TerminalKinds == {"Filled", "Cancelled", "Rejected"}

\* C1: on every order, after any sequence of fills (overfills and fills that
\* arrive after a cancellation included), original quantity = filled quantity
\* + remaining quantity.
C1_QuantityConserved ==
    \A c \in DOMAIN orders :
        orders[c].original_quantity = orders[c].filled_quantity + orders[c].remaining_quantity

\* two fills were recorded on an order, the second overfilling it
C1_Witness ==
    \E c \in DOMAIN orders :
        /\ Len(orders[c].fills) = 2
        /\ orders[c].fills[1].quantity < orders[c].original_quantity
        /\ orders[c].remaining_quantity < 0

\* C2, as stated: once an order is Filled, Cancelled or Rejected, no
\* update_order, record_fill or mark_cancelled call makes it Pending, Open or
\* PartiallyFilled again.
C2_TerminalIsFinal ==
    \A c \in DOMAIN orders :
        orders[c].status.kind \in TerminalKinds =>
            /\ \A response \in Responses, timestamp \in Times :
                  update_order(Manager, c, response, timestamp).m.orders[c].status.kind
                      \in TerminalKinds
            /\ \A fill \in Fills, timestamp \in Times :
                  record_fill(Manager, fill, timestamp).m.orders[c].status.kind
                      \in TerminalKinds
            /\ \A timestamp \in Times :
                  mark_cancelled(Manager, c, timestamp).m.orders[c].status.kind
                      \in TerminalKinds

\* C5: a register_order call that fails (duplicate client id with detection
\* enabled, or open-order limit reached) leaves the order map, the exchange-id
\* map and the per-symbol open lists as they were.
C5_FailedRegisterChangesNothing ==
    \A request \in Requests, c \in ClientIds, timestamp \in Times :
        LET r == register_order(Manager, config, request, c, timestamp)
        IN  ~r.ok =>
              /\ r.m.orders = orders
              /\ r.m.orders_by_exchange_id = orders_by_exchange_id
              /\ r.m.open_orders_by_symbol = open_orders_by_symbol

\* a registration of a new client id fails on the limit, and one of a tracked
\* client id fails as a duplicate
C5_Witness ==
    /\ \E request \in Requests, c \in ClientIds \ DOMAIN orders :
          ~register_order(Manager, config, request, c, 0).ok
    /\ \E request \in Requests, c \in DOMAIN orders :
          /\ Len(OpenList(Manager, request.symbol)) = 0
          /\ ~register_order(Manager, config, request, c, 0).ok

\* C6: a successful update_order(client_id, response) leaves the client id out
\* of its symbol's open list when the new status is terminal, and leaves the
\* open index as it was when the new status is not terminal.
C6_UpdateIndexesByTerminal ==
    \A c \in ClientIds, response \in Responses, timestamp \in Times :
        LET r == update_order(Manager, c, response, timestamp)
            symbol == orders[c].symbol
        IN  r.ok =>
              IF response.status.kind \in TerminalKinds
              THEN /\ c \notin SeqElems(OpenList(r.m, symbol))
                   /\ \A s \in DOMAIN open_orders_by_symbol \ {symbol} :
                         r.m.open_orders_by_symbol[s] = open_orders_by_symbol[s]
              ELSE r.m.open_orders_by_symbol = open_orders_by_symbol

\* an order is listed as open for its symbol, and terminal and non-terminal
\* updates of it succeed
C6_Witness ==
    \E c \in DOMAIN orders :
        /\ c \in SeqElems(OpenList(Manager, orders[c].symbol))
        /\ orders[c].status.kind = "PartiallyFilled"
        /\ \A response \in Responses : update_order(Manager, c, response, 0).ok

\* C7: after a successful record_fill the owning order is Filled if and only
\* if its remaining quantity is <= 0, and PartiallyFilled otherwise.
C7_FillStatusByRemaining ==
    \A fill \in Fills, timestamp \in Times :
        LET r == record_fill(Manager, fill, timestamp)
        IN  r.ok =>
              LET order == r.m.orders[orders_by_exchange_id[fill.order_id]]
              IN  /\ order.status.kind \in {"Filled", "PartiallyFilled"}
                  /\ order.status.kind = "Filled" <=> order.remaining_quantity <= 0

\* fills left one order partially filled and then used it up exactly
C7_Witness ==
    \E c \in DOMAIN orders :
        /\ Len(orders[c].fills) = 2
        /\ orders[c].remaining_quantity = 0
        /\ orders[c].status.kind = "Filled"
        /\ \E fill \in Fills : record_fill(Manager, fill, 0).ok

\* C8: record_fill for an exchange id the manager does not know returns an
\* error and changes no order and no index.
C8_UnknownFillRejected ==
    \A fill \in Fills, timestamp \in Times :
        fill.order_id \notin DOMAIN orders_by_exchange_id =>
            LET r == record_fill(Manager, fill, timestamp)
            IN  /\ ~r.ok
                /\ r.m.orders = orders
                /\ r.m.orders_by_exchange_id = orders_by_exchange_id
                /\ r.m.open_orders_by_symbol = open_orders_by_symbol

\* an order is tracked under an id that no acknowledgement has installed, and
\* a fill names that id
C8_Witness ==
    \E c \in DOMAIN orders, fill \in Fills :
        /\ fill.order_id = orders[c].order_id
        /\ fill.order_id \notin DOMAIN orders_by_exchange_id
        /\ orders_by_exchange_id /= EmptyMap

\* C9: after a successful mark_cancelled(client_id) the order is Cancelled,
\* carrying the quantity filled so far, and the client id is not in its
\* symbol's open list.
C9_CancelledAndUnlisted ==
    \A c \in ClientIds, timestamp \in Times :
        LET r == mark_cancelled(Manager, c, timestamp)
        IN  r.ok =>
              /\ r.m.orders[c].status.kind = "Cancelled"
              /\ r.m.orders[c].status.filled_qty = orders[c].filled_quantity
              /\ r.m.orders[c].filled_quantity = orders[c].filled_quantity
              /\ c \notin SeqElems(OpenList(r.m, orders[c].symbol))

\* a partially filled order, listed as open, can be cancelled
C9_Witness ==
    \E c \in DOMAIN orders :
        /\ orders[c].status.kind = "PartiallyFilled"
        /\ orders[c].filled_quantity = 1
        /\ c \in SeqElems(OpenList(Manager, orders[c].symbol))
        /\ mark_cancelled(Manager, c, 0).ok

\* the ids check_timeouts is claimed to return: the orders still pending or
\* open whose age now - created exceeds the configured timeout
TimedOut(current_time) ==
    { c \in DOMAIN orders :
        /\ orders[c].status.kind \in NonTerminalKinds
        /\ current_time - orders[c].created_at > config.order_timeout_ms }

\* C10, as stated: check_timeouts(now) returns exactly the client ids of the
\* orders still open or pending whose age exceeds order_timeout_ms.
C10_ReturnsEveryAgedOrder ==
    \A current_time \in Times :
        check_timeouts(Manager, config, current_time) = TimedOut(current_time)

\* C10: with order_timeout_ms > 0, check_timeouts(now) returns
\* exactly the client ids of the orders still open or pending whose age
\* exceeds order_timeout_ms; with order_timeout_ms = 0 it returns none.  It is
\* a function of the manager and changes nothing.
C10_TimeoutQuery ==
    \A current_time \in Times :
        check_timeouts(Manager, config, current_time) =
            IF config.order_timeout_ms = 0 THEN {} ELSE TimedOut(current_time)

\* of two open orders one has timed out and the other has not
C10_Witness ==
    /\ config.order_timeout_ms > 0
    /\ \E current_time \in Times, c1 \in DOMAIN orders, c2 \in DOMAIN orders :
          /\ c1 \in check_timeouts(Manager, config, current_time)
          /\ c2 \notin check_timeouts(Manager, config, current_time)
          /\ orders[c2].status.kind \in NonTerminalKinds


(***************************************************************************)
(* Claims about the thread-safe order manager.                             *)
(***************************************************************************)
Writing == { t \in Threads : pc[t] \in {"write_locked", "write_half", "write_done"} }
Reading == { t \in Threads : pc[t] \in {"read_locked", "read_half", "read_done"} }

\* C3: at most one thread is inside a write; no thread is inside a read while
\* one is inside a write; and what a read has seen of the open index and of
\* the order map is what the writes that have returned, applied whole and in
\* order, have left.
C3_SingleWriterSnapshots ==
    /\ Cardinality(Writing) <= 1
    /\ Writing /= {} => Reading = {}
    /\ \A t \in Threads :
          /\ pc[t] \in {"read_half", "read_done"} =>
                 observed[t].open_orders_by_symbol = committed.open_orders_by_symbol
          /\ pc[t] = "read_done" => observed[t].orders = committed.orders

\* two threads read side by side a book that writes have filled, one of them
\* having read a tracked order that is off the open index
C3_Witness ==
    \E t \in Threads, u \in Threads :
        /\ t /= u
        /\ pc[t] = "read_done"
        /\ pc[u] \in {"read_half", "read_done"}
        /\ \E c \in DOMAIN observed[t].orders :
              /\ is_terminal(observed[t].orders[c])
              /\ c \notin SeqElems(OpenList(observed[t], observed[t].orders[c].symbol))

(***************************************************************************)
(* Claims about the alert manager.                                         *)
(***************************************************************************)
\* the places of a history held by alerts numbered from counter on
NewEntries(history, counter) == { i \in 1..Len(history) : history[i].id[3] >= counter }

\* C4, as stated: whenever a kind is raised and stored, and raised again less
\* than dedup_window_ms later, the second raise changes nothing and the two
\* raises have left exactly one entry in the history.
C4_TwoRaisesOneEntry ==
    \A type_key \in AlertKinds, s1 \in RaiseSeverities, s2 \in RaiseSeverities,
       t1 \in AlertTimes, t2 \in AlertTimes :
        LET a1 == alert_with_message(AlertMgr, type_key, s1, t1)
            a2 == alert_with_message(a1, type_key, s2, t2)
        IN  /\ a1.ALERT_COUNTER = ALERT_COUNTER + 1
            /\ t1 <= t2
            /\ t2 - t1 < dedup_window_ms
            => /\ a2 = a1
               /\ Cardinality(NewEntries(a2.alert_history, ALERT_COUNTER)) = 1

\* C4: whenever a kind is raised and stored, and raised again less than
\* dedup_window_ms later, the second raise changes nothing (no entry, no
\* dispatch, no id drawn, the remembered time kept), and the two raises have
\* left one entry in the history, or none when max_history is 0.
C4_DuplicateDropped ==
    \A type_key \in AlertKinds, s1 \in RaiseSeverities, s2 \in RaiseSeverities,
       t1 \in AlertTimes, t2 \in AlertTimes :
        LET a1 == alert_with_message(AlertMgr, type_key, s1, t1)
            a2 == alert_with_message(a1, type_key, s2, t2)
        IN  /\ a1.ALERT_COUNTER = ALERT_COUNTER + 1
            /\ t1 <= t2
            /\ t2 - t1 < dedup_window_ms
            => /\ a2 = a1
               /\ Cardinality(NewEntries(a2.alert_history, ALERT_COUNTER)) =
                      IF max_history = 0 THEN 0 ELSE 1

\* a kind has been raised, stored and handed to a handler, and a raise of it
\* that the handler would accept arrives within the window and is dropped
C4_Witness ==
    \E type_key \in DOMAIN recent_alerts, severity \in RaiseSeverities, timestamp \in AlertTimes :
        /\ \E i \in 1..Len(alert_history) :
              /\ alert_history[i].alert_type = type_key
              /\ alert_history[i].timestamp = recent_alerts[type_key]
              /\ \E h \in 1..Len(handlers) : alert_history[i] \in SeqElems(handlers[h].alerts)
        /\ \E h \in 1..Len(handlers) : accepts_severity(handlers[h], severity)
        /\ recent_alerts[type_key] < timestamp
        /\ timestamp - recent_alerts[type_key] < dedup_window_ms
        /\ alert_with_message(AlertMgr, type_key, severity, timestamp) = AlertMgr

(***************************************************************************)
(* Claims about cleanup and the open-order limit.                          *)
(***************************************************************************)
\* the orders cleanup is said to drop: terminal, last updated before
\* now - retention_ms
Expired(retention_ms, current_time) ==
    { c \in DOMAIN orders :
        /\ orders[c].status.kind \in TerminalKinds
        /\ orders[c].updated_at < current_time - retention_ms }

OpenOrdersOf(symbol) ==
    { c \in DOMAIN orders :
        orders[c].symbol = symbol /\ orders[c].status.kind \in NonTerminalKinds }

\* C12, as stated: with max_open_orders > 0, no symbol ever has more than
\* max_open_orders orders that are Pending, Open or PartiallyFilled.
C12_OpenOrdersWithinLimit ==
    config.max_open_orders > 0 =>
        \A symbol \in Symbols : Cardinality(OpenOrdersOf(symbol)) <= config.max_open_orders

(***************************************************************************)
(* Claims about dispatch, the history and the ids of alerts.               *)
(***************************************************************************)
AlertSeverities == {Info, Warning, Error, Critical}

\* C13: an alert that is not dropped is handed once to every registered
\* handler whose accepts_severity(severity) is true and to no other handler;
\* and no handler ever holds an alert twice or holds one it does not accept.
C13_DispatchedOnceToAccepting ==
    /\ \A type_key \in AlertKinds, severity \in AlertSeverities, timestamp \in AlertTimes :
          LET a == alert_with_message(AlertMgr, type_key, severity, timestamp)
              alert == Alert_new(ALERT_COUNTER, type_key, severity, timestamp)
          IN  a.ALERT_COUNTER /= ALERT_COUNTER =>
                 /\ Len(a.handlers) = Len(handlers)
                 /\ \A i \in 1..Len(handlers) :
                       a.handlers[i] =
                           IF accepts_severity(handlers[i], severity)
                           THEN [handlers[i] EXCEPT !.alerts = Append(@, alert)]
                           ELSE handlers[i]
    /\ \A i \in 1..Len(handlers) :
          /\ \A x \in 1..Len(handlers[i].alerts), y \in 1..Len(handlers[i].alerts) :
                handlers[i].alerts[x].id = handlers[i].alerts[y].id => x = y
          /\ \A x \in 1..Len(handlers[i].alerts) :
                accepts_severity(handlers[i], handlers[i].alerts[x].severity)

\* two handlers are registered, one that has been handed an alert the other
\* has refused, and a further alert would again reach only one of them
C13_Witness ==
    /\ Len(handlers) = 2
    /\ \E i \in 1..2, j \in 1..2 :
          /\ \E alert \in SeqElems(handlers[i].alerts) :
                /\ ~accepts_severity(handlers[j], alert.severity)
                /\ alert \notin SeqElems(handlers[j].alerts)
                /\ alert \in SeqElems(alert_history)
          /\ \E type_key \in AlertKinds, severity \in RaiseSeverities, timestamp \in DispatchTimes :
                LET a == alert_with_message(AlertMgr, type_key, severity, timestamp)
                IN  /\ Len(a.handlers[i].alerts) = Len(handlers[i].alerts) + 1
                    /\ a.handlers[j] = handlers[j]

\* the last n elements of a sequence, all of it when it is shorter
LastOf(s, n) ==
    LET k == IF Len(s) < n THEN Len(s) ELSE n
    IN  [i \in 1..k |-> s[Len(s) - k + i]]

\* C14: the history never holds more than max_history alerts and holds them
\* in arrival order; an alert that is stored leaves the history holding the
\* newest max_history of the alerts it held and the new one, in that order.
C14_HistoryBounded ==
    /\ Len(alert_history) <= max_history
    /\ \A x \in 1..Len(alert_history), y \in 1..Len(alert_history) :
          x < y => alert_history[x].id[3] < alert_history[y].id[3]
    /\ \A type_key \in AlertKinds, severity \in AlertSeverities, timestamp \in AlertTimes :
          LET a == alert_with_message(AlertMgr, type_key, severity, timestamp)
              alert == Alert_new(ALERT_COUNTER, type_key, severity, timestamp)
          IN  a.ALERT_COUNTER /= ALERT_COUNTER =>
                 a.alert_history = LastOf(Append(alert_history, alert), max_history)

\* the history is full of alerts drawn after the first one, which it has lost,
\* and a further alert would push out the oldest it holds
C14_Witness ==
    /\ max_history >= 1
    /\ Len(alert_history) = max_history
    /\ alert_history[1].id[3] >= 1
    /\ \E type_key \in AlertKinds, severity \in RaiseSeverities, timestamp \in AlertTimes :
          LET a == alert_with_message(AlertMgr, type_key, severity, timestamp)
          IN  /\ Len(a.alert_history) = max_history
              /\ alert_history[1] \notin SeqElems(a.alert_history)
              /\ a.alert_history[max_history].id[3] = ALERT_COUNTER

\* an alert as it was created: its acknowledged flag down
AsCreated(alert) == [alert EXCEPT !.acknowledged = FALSE]

\* C15: under every operation of the manager, each alert the history holds
\* afterwards is, but for its acknowledged flag, an alert the history held
\* before, or the alert the operation has just created.
C15_StoredAlertsKeepFields ==
    [][\A j \in 1..Len(alert_history') :
          \/ \E i \in 1..Len(alert_history) :
                AsCreated(alert_history'[j]) = AsCreated(alert_history[i])
          \/ /\ ALERT_COUNTER' = ALERT_COUNTER + 1
             /\ alert_history'[j] =
                    Alert_new(ALERT_COUNTER, alert_history'[j].alert_type,
                              alert_history'[j].severity, alert_history'[j].timestamp)]_vars

\* the history holds an alert that has been acknowledged and a later one that
\* has not
C15_Witness ==
    \E i \in 1..Len(alert_history), j \in 1..Len(alert_history) :
        /\ i < j
        /\ alert_history[i].acknowledged
        /\ ~alert_history[j].acknowledged
        /\ alert_history[i] /= AsCreated(alert_history[i])

\* C16, as stated: acknowledge(id) and acknowledge_all leave the manager as it
\* was.
C16_AcknowledgeChangesNothing ==
    /\ \A i \in 1..Len(alert_history) :
          acknowledge(AlertMgr, alert_history[i].id).am = AlertMgr
    /\ acknowledge_all(AlertMgr) = AlertMgr

\* C16: acknowledge(id) raises the acknowledged flag of the alert that carries
\* the id and reports whether there is one, acknowledge_all raises every
\* flag, and both leave the rest of the manager (the alerts' other fields and
\* order, the dedup map, the handlers, the counter) as it was;
\* unacknowledged_count, get_alerts_by_severity and get_alerts_at_or_above are
\* functions of the manager: the alerts, in order, that are not acknowledged,
\* of the severity, at or above it.
C16_AcknowledgeRaisesFlagsOnly ==
    /\ \A id \in { a.id : a \in SeqElems(alert_history) } \cup {NoAlertId} :
          LET r == acknowledge(AlertMgr, id)
          IN  /\ r.found = (\E i \in 1..Len(alert_history) : alert_history[i].id = id)
              /\ r.am = [AlertMgr EXCEPT !.alert_history =
                            [i \in 1..Len(@) |->
                                IF @[i].id = id THEN [@[i] EXCEPT !.acknowledged = TRUE]
                                ELSE @[i]]]
    /\ acknowledge_all(AlertMgr) =
           [AlertMgr EXCEPT !.alert_history =
               [i \in 1..Len(@) |-> [@[i] EXCEPT !.acknowledged = TRUE]]]
    /\ unacknowledged_count(AlertMgr) =
           Cardinality({ i \in 1..Len(alert_history) : ~alert_history[i].acknowledged })
    /\ \A severity \in AlertSeverities :
          /\ Len(get_alerts_by_severity(AlertMgr, severity)) =
                 Cardinality({ i \in 1..Len(alert_history) :
                                 alert_history[i].severity = severity })
          /\ Len(get_alerts_at_or_above(AlertMgr, severity)) =
                 Cardinality({ i \in 1..Len(alert_history) :
                                 alert_history[i].severity >= severity })

\* the history holds two alerts of different severities, one acknowledged and
\* one not, and the dedup map remembers a raise
C16_Witness ==
    /\ Len(alert_history) = 2
    /\ alert_history[1].acknowledged
    /\ ~alert_history[2].acknowledged
    /\ alert_history[1].severity /= alert_history[2].severity
    /\ DOMAIN recent_alerts /= {}
    /\ acknowledge(AlertMgr, alert_history[2].id).am /= AlertMgr
    /\ unacknowledged_count(AlertMgr) = 1

\* C17: cleanup(max_age, now) leaves in the history, in their order, exactly
\* the alerts whose timestamp is at or after now - max_age, leaves in the
\* dedup map exactly the entries whose time is at or after it, and changes
\* nothing else.
C17_CleanupKeepsFromCutoff ==
    \A max_age_ms \in MaxAges, current_time \in AlertTimes :
        LET r == AlertManager_cleanup(AlertMgr, max_age_ms, current_time)
            kept == { i \in 1..Len(alert_history) :
                        alert_history[i].timestamp >= current_time - max_age_ms }
        IN  /\ Len(r.alert_history) = Cardinality(kept)
            /\ \A i \in kept :
                  r.alert_history[Cardinality({ j \in kept : j <= i })] = alert_history[i]
            /\ DOMAIN r.recent_alerts =
                   { k \in DOMAIN recent_alerts : recent_alerts[k] >= current_time - max_age_ms }
            /\ \A k \in DOMAIN r.recent_alerts : r.recent_alerts[k] = recent_alerts[k]
            /\ r = [AlertMgr EXCEPT !.alert_history = r.alert_history,
                                    !.recent_alerts = r.recent_alerts]

\* a cleanup drops an alert and a dedup entry older than the cutoff and keeps
\* an alert and a dedup entry that are exactly as old as the cutoff
C17_Witness ==
    \E max_age_ms \in MaxAges, current_time \in AlertTimes :
        LET r == AlertManager_cleanup(AlertMgr, max_age_ms, current_time)
        IN  /\ max_age_ms > 0
            /\ Len(alert_history) = 2
            /\ Len(r.alert_history) = 1
            /\ r.alert_history[1].timestamp = current_time - max_age_ms
            /\ Cardinality(DOMAIN recent_alerts) = 2
            /\ \E k \in DOMAIN r.recent_alerts :
                  /\ DOMAIN r.recent_alerts = {k}
                  /\ recent_alerts[k] = current_time - max_age_ms

\* C18: no two alerts returned by Alert::new, to one thread or to two, for one
\* manager or for two, carry the same id.
C18_IdsUnique ==
    \A t \in Threads, u \in Threads :
        \A i \in 1..Len(made[t]), j \in 1..Len(made[u]) :
            made[t][i].id = made[u][j].id => (t = u /\ i = j)

\* two threads have each been returned one alert, both of the same type and
\* timestamp, told apart by the counter alone
C18_Witness ==
    \E t \in Threads, u \in Threads :
        /\ t /= u
        /\ Len(made[t]) = 1
        /\ Len(made[u]) = 1
        /\ made[t][1].alert_type = made[u][1].alert_type
        /\ made[t][1].timestamp = made[u][1].timestamp
        /\ made[t][1].id /= made[u][1].id

\* the position after the order, and its notional at the price of the call
NewPosition == check_args.current_position + check_args.order_size

NewNotional == AbsInt(NewPosition) * check_args.price

C20_RiskReducingPasses ==
    (/\ check_pc = "returned"
     /\ check_args.price > 0
     /\ check_args.current_position * check_args.order_size < 0
     /\ AbsInt(NewPosition) < AbsInt(check_args.current_position)
     /\ ~(/\ check_args.current_position * NewPosition < 0
          /\ AbsInt(NewPosition) > limits.max_position))
        => check_result = CheckOk(TRUE)

(***************************************************************************)
(* Claims about the backtest engine.  What one tick does is stated for     *)
(* every tick of the alphabet on the engine of the current state.          *)
(***************************************************************************)
RECURSIVE CashFlowOf(_)
\* what a list of fills adds to realized P&L: sells add price * quantity, buys subtract it
CashFlowOf(fills) ==
    IF fills = << >> THEN 0
    ELSE CashFlowOf(Tail(fills)) +
         (IF Head(fills).side = "Buy" THEN 0 - notional(Head(fills)) ELSE notional(Head(fills)))

RECURSIVE FeesOf(_)
FeesOf(fills) == IF fills = << >> THEN 0 ELSE FeesOf(Tail(fills)) + Head(fills).fee

\* a run has returned and the engine has not been reset since
Returned == ~run.running /\ ~run.fresh /\ Len(results) > 0

\* the fills that one more tick makes the strategy see
FillsOn(tick) ==
    SubSeq(run_tick(engine, tick).strategy.fills_received,
           Len(engine.strategy.fills_received) + 1,
           Len(run_tick(engine, tick).strategy.fills_received))

CrossesBid(tick) ==
    on_tick(engine.strategy, tick).some /\ on_tick(engine.strategy, tick).bid_price >= tick.ask_price

CrossesAsk(tick) ==
    on_tick(engine.strategy, tick).some /\ on_tick(engine.strategy, tick).ask_price <= tick.bid_price

\* C21: once a run has processed all ticks, final equity, that is initial
\* capital plus the net P&L of the result, and the last point of the equity
\* curve when one is kept, equals initial capital + realized P&L + unrealized
\* P&L - accumulated fees, where realized P&L is the cash flow of all fills and
\* the fees are those of all fills.
C21_EquityIdentity ==
    Returned =>
        LET result == results[Len(results)].result
            identity == engine.config.initial_capital + engine.pnl.realized
                            + engine.pnl.unrealized - engine.total_fees
        IN  /\ engine.config.initial_capital + result.net_pnl = identity
            /\ result.total_pnl - result.total_fees = result.net_pnl
            /\ result.equity_curve /= << >> =>
                  result.equity_curve[Len(result.equity_curve)][2] = identity
            /\ engine.pnl.realized = CashFlowOf(engine.strategy.fills_received)
            /\ engine.total_fees = FeesOf(engine.strategy.fills_received)

\* a run over two ticks of different mid has returned with a position left
\* open, fees paid and an equity curve kept
C21_Witness ==
    /\ Returned
    /\ results[Len(results)].result.num_ticks = 2
    /\ engine.position.quantity /= 0
    /\ engine.total_fees > 0
    /\ engine.pnl.unrealized /= 0
    /\ engine.pnl.realized /= 0
    /\ Len(engine.equity_curve) = 2
    /\ engine.equity_curve[1][2] /= engine.equity_curve[2][2]

SidesOf(fills) == [i \in 1..Len(fills) |-> fills[i].side]

\* C22 as stated: one tick makes a buy fill exactly when quote.bid >= tick.ask
\* and a sell fill exactly when quote.ask <= tick.bid, and a tick that crosses
\* neither side makes no fill and leaves position, P&L and fees as they were.
C22_NoCrossLeavesPnL ==
    \A tick \in MarketTicks :
        (~CrossesBid(tick) /\ ~CrossesAsk(tick)) =>
            /\ FillsOn(tick) = << >>
            /\ run_tick(engine, tick).position = engine.position
            /\ run_tick(engine, tick).pnl = engine.pnl
            /\ run_tick(engine, tick).total_fees = engine.total_fees

\* C22: one tick makes a buy fill exactly when quote.bid >= tick.ask and a
\* sell fill exactly when quote.ask <= tick.bid, at most one of each; a tick
\* that crosses neither side makes no fill and leaves position, realized P&L,
\* fees, trades and the strategy as they were, while unrealized P&L is marked
\* to the mid of the tick and total P&L follows it.
C22_FillsExactlyOnCross ==
    \A tick \in MarketTicks :
        LET after == run_tick(engine, tick)
            sides == SidesOf(FillsOn(tick))
        IN  /\ (\E i \in DOMAIN sides : sides[i] = "Buy") <=> CrossesBid(tick)
            /\ (\E i \in DOMAIN sides : sides[i] = "Sell") <=> CrossesAsk(tick)
            /\ \A i \in DOMAIN sides, j \in DOMAIN sides : sides[i] = sides[j] => i = j
            /\ (~CrossesBid(tick) /\ ~CrossesAsk(tick)) =>
                  /\ after.position = engine.position
                  /\ after.pnl.realized = engine.pnl.realized
                  /\ after.total_fees = engine.total_fees
                  /\ after.trades = engine.trades
                  /\ after.strategy = engine.strategy
                  /\ after.max_position = engine.max_position
            /\ after.pnl.unrealized = after.position.quantity * mid_price(tick)
            /\ after.pnl.total = after.pnl.realized + after.pnl.unrealized

\* the engine holds a position bought on an earlier tick, and among the ticks
\* that may come next one crosses the bid exactly at the ask, and one of
\* another mid crosses nothing
C22_Witness ==
    /\ run.running
    /\ engine.position.quantity > 0
    /\ \E tick \in MarketTicks :
          /\ CrossesBid(tick) /\ ~CrossesAsk(tick)
          /\ on_tick(engine.strategy, tick).bid_price = tick.ask_price
          /\ SidesOf(FillsOn(tick)) = <<"Buy">>
    /\ \E tick \in MarketTicks :
          /\ ~CrossesBid(tick) /\ ~CrossesAsk(tick)
          /\ FillsOn(tick) = << >>
          /\ run_tick(engine, tick).pnl.unrealized /= engine.pnl.unrealized

\* C23: a tick that crosses both the quoted bid and the quoted ask makes two
\* fills, the buy at the bid first and the sell at the ask second: on_fill
\* sees them in that order, position, realized P&L and fees take both, and
\* the trade list, when kept, gains them in that order.
C23_BidFillBeforeAsk ==
    \A tick \in MarketTicks :
        (CrossesBid(tick) /\ CrossesAsk(tick)) =>
            LET after == run_tick(engine, tick)
                fills == FillsOn(tick)
            IN  /\ Len(fills) = 2
                /\ fills[1].side = "Buy"
                /\ fills[2].side = "Sell"
                /\ fills[1].timestamp = tick.timestamp
                /\ fills[2].timestamp = tick.timestamp
                /\ after.position.quantity = engine.position.quantity
                /\ after.pnl.realized = engine.pnl.realized + CashFlowOf(fills)
                /\ after.total_fees = engine.total_fees + FeesOf(fills)
                /\ after.trades = IF engine.config.record_trades
                                  THEN engine.trades \o fills ELSE engine.trades

\* a tick has crossed both sides: the strategy has been told of a buy and then
\* a sell of the same tick, and the trade list holds them
C23_Witness ==
    /\ run.running
    /\ Len(engine.strategy.fills_received) = 2
    /\ SidesOf(engine.strategy.fills_received) = <<"Buy", "Sell">>
    /\ engine.strategy.fills_received[1].timestamp = engine.strategy.fills_received[2].timestamp
    /\ engine.trades = engine.strategy.fills_received
    /\ \E tick \in MarketTicks : CrossesBid(tick) /\ CrossesAsk(tick)

\* C24: with the volatility-scaled slippage model of multiplier k > 0 every
\* simulated fill is shifted against the trader: a buy fills above the quoted
\* bid and a sell below the quoted ask.
C24_VolSlippageShiftsFills ==
    \A tick \in MarketTicks :
        (engine.config.slippage.kind = "VolatilityBased" /\ engine.config.slippage.value > 0) =>
            \A i \in DOMAIN FillsOn(tick) :
                /\ FillsOn(tick)[i].side = "Buy" =>
                      FillsOn(tick)[i].price > on_tick(engine.strategy, tick).bid_price
                /\ FillsOn(tick)[i].side = "Sell" =>
                      FillsOn(tick)[i].price < on_tick(engine.strategy, tick).ask_price

\* C25: a run started on an engine that is new or has just been reset returns
\* the same result every time, and reset leaves the engine as
\* BacktestEngine::new would build it from the same configuration, the
\* strategy reset and the tape rewound.
C25_ResetReplaysRun ==
    /\ \A i \in DOMAIN results, j \in DOMAIN results :
          (results[i].fresh /\ results[j].fresh) => results[i].result = results[j].result
    /\ ~run.running =>
          BacktestEngine_reset(engine) =
              BacktestEngine_new(engine.config, strategy_reset(engine.strategy),
                                 [engine.data_source EXCEPT !.index = 0])

\* run, reset, run: both runs have returned, with fills, fees, a position, a
\* drawdown and an equity curve in the result
C25_Witness ==
    /\ Len(results) = 2
    /\ results[1].fresh
    /\ results[2].fresh
    /\ results[2].result.num_trades > 0
    /\ results[2].result.total_fees > 0
    /\ results[2].result.final_position /= 0
    /\ results[2].result.max_drawdown > 0
    /\ Len(results[2].result.equity_curve) = 2

(***************************************************************************)
(* Claims about LiveMetrics.                                               *)
(***************************************************************************)
\* C26: a snapshot that is complete shows metrics as it was at one instant
\* between the call of snapshot and its return, whatever other threads did
\* in the meantime.
C26_SnapshotIsOneInstant ==
    \A t \in MetricThreads :
        (mcall[t].op = "snapshot" /\ mcall[t].step = Len(MetricFields)) =>
            mcall[t].snap \in seen[t]

\* C27: when no call is in progress and none of the calls made overwrites or
\* resets a value, each counter equals the number of increments issued and
\* realized P&L equals the sum of the amounts added.
C27_NoUpdateLost ==
    ((\A t \in MetricThreads : mcall[t].op = "none") /\ ~issued.overwrites) =>
        /\ metrics.quotes_generated = issued.quotes
        /\ metrics.orders_submitted = issued.submitted
        /\ metrics.realized_pnl = issued.realized

\* three calls have returned: two record_quote and one add_realized_pnl
C27_Witness ==
    /\ \A t \in MetricThreads : mcall[t].op = "none"
    /\ ~issued.overwrites
    /\ issued.calls = 3
    /\ metrics.quotes_generated = 2
    /\ metrics.realized_pnl = 2
    /\ metrics.last_quote_time = 1

(***************************************************************************)
(* Claims about the correlation matrix and the portfolio variance.         *)
(***************************************************************************)
\* C28: after any sequence of set_correlation calls, accepted or rejected,
\* get(a, b) = get(b, a) for every pair of assets, get(a, a) = 1 for every
\* asset of the matrix, every stored value lies in [-1, 1], and one more
\* call of set_correlation leaves the matrix as it was when it is rejected.
C28_SymmetricUnitDiagonal ==
    /\ \A a \in Assets, b \in Assets :
          /\ get_correlation(correlation_matrix, a, b) = get_correlation(correlation_matrix, b, a)
          /\ get_correlation(correlation_matrix, a, b).some <=>
                (asset_index(correlation_matrix, a) >= 0 /\ asset_index(correlation_matrix, b) >= 0)
          /\ get_correlation(correlation_matrix, a, b).some =>
                /\ get_correlation(correlation_matrix, a, b).value >= 0 - CorrScale
                /\ get_correlation(correlation_matrix, a, b).value <= CorrScale
    /\ \A a \in Assets :
          asset_index(correlation_matrix, a) >= 0 =>
              get_correlation(correlation_matrix, a, a) = [some |-> TRUE, value |-> CorrScale]
    /\ \A a \in Assets, b \in Assets, correlation \in Correlations :
          LET r == set_correlation(correlation_matrix, a, b, correlation)
          IN  /\ ~r.ok => r.matrix = correlation_matrix
              /\ r.ok => /\ get_correlation(r.matrix, a, b).value = correlation
                         /\ get_correlation(r.matrix, b, a).value = correlation

\* the pair (SOL, BTC) was set in that order, a later call was rejected, and
\* the value is read back in both orders
C28_Witness ==
    /\ set_result = "Err"
    /\ get_correlation(correlation_matrix, "BTC", "SOL") = [some |-> TRUE, value |-> 0 - CorrScale]
    /\ get_correlation(correlation_matrix, "SOL", "BTC") = [some |-> TRUE, value |-> 0 - CorrScale]
    /\ get_correlation(correlation_matrix, "ETH", "SOL").value = 1
    /\ get_correlation(correlation_matrix, "BTC", "ETH").value = 0

\* C29: portfolio_variance is not negative, for every portfolio and every
\* matrix that set_correlation can build.
C29_VarianceNotNegative ==
    \A portfolio \in Portfolios : portfolio_variance(correlation_matrix, portfolio) >= 0

(***************************************************************************)
(* Claims about the grid strategy.                                         *)
(***************************************************************************)
\* C30: for every accepted configuration with N levels per side and every
\* positive reference price, generate_grid returns exactly 2 * N orders, N
\* buys and N sells, every buy priced below the reference price and every
\* sell above it, in ascending order of price.
C30_GridAroundReference ==
    \A reference_price \in ReferencePrices :
        LET generated == generate_grid(grid, reference_price)
        IN  /\ Len(generated) = 2 * grid.config.levels_per_side
            /\ Cardinality({ i \in DOMAIN generated : generated[i].side = "Buy" }) = grid.config.levels_per_side
            /\ Cardinality({ i \in DOMAIN generated : generated[i].side = "Sell" }) = grid.config.levels_per_side
            /\ \A i \in DOMAIN generated :
                  /\ generated[i].side = "Buy" => generated[i].price < reference_price * DecScale
                  /\ generated[i].side = "Sell" => generated[i].price > reference_price * DecScale
            /\ \A i \in DOMAIN generated, j \in DOMAIN generated :
                  i < j => generated[i].price <= generated[j].price

\* a grid of two levels per side has been generated: four orders, the lowest
\* the buy of level -2, the highest the sell of level 2
C30_Witness ==
    /\ Len(grid_orders) = 4
    /\ grid_orders[1].level = 0 - 2
    /\ grid_orders[2].level = 0 - 1
    /\ grid_orders[3].level = 1
    /\ grid_orders[4].level = 2
    /\ grid_orders[1].price < grid_orders[2].price
    /\ grid_orders[1].size > grid_orders[2].size
    /\ \E reference_price \in ReferencePrices : grid_orders = generate_grid(grid, reference_price)

\* C31: when the inventory is at or beyond max_position in size, the
\* inventory-aware grid holds no order on the side that adds to the position
\* (no buy when long, no sell when short), and the other side is there in
\* full, with its sizes untouched.
C31_NoRiskIncreasingSideAtLimit ==
    \A reference_price \in ReferencePrices, current_inventory \in Inventories :
        AbsInt(current_inventory) >= grid.config.max_position =>
            LET generated == generate_grid_with_inventory(grid, reference_price, current_inventory)
                adding == IF current_inventory > 0 THEN "Buy" ELSE "Sell"
            IN  /\ \A i \in DOMAIN generated : generated[i].side # adding
                /\ Len(generated) = grid.config.levels_per_side
                /\ \A i \in DOMAIN generated :
                      generated[i].size = calculate_level_size(grid, generated[i].level) * DecScale

\* a grid of two levels per side was generated for a long inventory beyond
\* max_position: what is left of it are the two sells
C31_Witness ==
    /\ grid.config.levels_per_side = 2
    /\ Len(grid_orders) = 2
    /\ grid_orders[1].side = "Sell"
    /\ grid_orders[2].side = "Sell"
    /\ \E reference_price \in ReferencePrices, current_inventory \in Inventories :
          /\ current_inventory > grid.config.max_position
          /\ grid_orders = generate_grid_with_inventory(grid, reference_price, current_inventory)

(***************************************************************************)
(* Claims about the GLFT calculators.                                      *)
(***************************************************************************)
\* the call that has just returned
QuotesCalled == glft_args.op = "calculate_optimal_quotes"

ReservationCalled == glft_args.op = "calculate_reservation_price"

ComputedQuotes ==
    computed_quotes(glft_args.mid, glft_args.inventory, glft_config,
                    glft_args.volatility, glft_args.current_time)

\* C32: a quote pair returned as success has 0 < bid < ask, and whenever the
\* computed bid is at or above the computed ask, or is not positive, the call
\* fails with InvalidQuoteGeneration; a computed pair with 0 < bid < ask is
\* returned as it is.
C32_QuotesNeverCrossed ==
    QuotesCalled =>
        /\ glft_result.kind = "Ok" =>
              /\ RatLt(Whole(0), glft_result.bid)
              /\ RatLt(glft_result.bid, glft_result.ask)
        /\ ComputedQuotes.kind = "Ok" =>
              IF \/ RatLe(ComputedQuotes.ask, ComputedQuotes.bid)
                 \/ RatLe(ComputedQuotes.bid, Whole(0))
              THEN glft_result = GLFTErr("InvalidQuoteGeneration")
              ELSE glft_result = ComputedQuotes

\* a call whose computed bid is below the ask but not positive has failed
\* with InvalidQuoteGeneration
C32_Witness ==
    /\ QuotesCalled
    /\ ComputedQuotes.kind = "Ok"
    /\ RatLt(ComputedQuotes.bid, ComputedQuotes.ask)
    /\ RatLe(ComputedQuotes.bid, Whole(0))
    /\ glft_result = GLFTErr("InvalidQuoteGeneration")

\* the reservation price that has just been returned lies on the side of the
\* mid price that works against the inventory
LeansAgainstInventory ==
    /\ glft_args.inventory = 0 => RatEq(glft_result.value, Whole(glft_args.mid))
    /\ glft_args.inventory > 0 => RatLt(glft_result.value, Whole(glft_args.mid))
    /\ glft_args.inventory < 0 => RatLt(Whole(glft_args.mid), glft_result.value)

ReservationReturned == ReservationCalled /\ glft_result.kind = "Ok"

\* C33 as stated: for all valid inputs the reservation price equals mid when
\* q = 0, is strictly below mid when q > 0 and strictly above when q < 0, at
\* every current time, at and after the terminal time included.
C33_LeansAtEveryTime == ReservationReturned => LeansAgainstInventory

\* C33, amended: the reservation price equals mid when q = 0.  With dynamic
\* gamma off or its scaling factor at least -1, it is strictly below mid for
\* q > 0 and strictly above for q < 0 whenever the current time is before the
\* terminal time or the terminal penalty is positive at or after it; at or
\* after the terminal time with a terminal penalty of zero it equals mid for
\* every inventory.
C33_LeansWhileTimeOrPenalty ==
    ReservationReturned =>
        /\ glft_args.inventory = 0 => RatEq(glft_result.value, Whole(glft_args.mid))
        /\ (~glft_config.dynamic_gamma \/ RatLe(Whole(0 - 1), glft_config.gamma_scaling_factor)) =>
              IF glft_args.current_time < glft_config.terminal_time
              THEN LeansAgainstInventory
              ELSE IF RatLt(Whole(0), glft_config.terminal_penalty)
              THEN LeansAgainstInventory
              ELSE RatEq(glft_result.value, Whole(glft_args.mid))

\* a long inventory priced after the terminal time under a positive terminal
\* penalty: the reservation price is below mid
C33_Witness ==
    /\ ReservationReturned
    /\ glft_args.inventory > 0
    /\ glft_args.current_time > glft_config.terminal_time
    /\ RatLt(Whole(0), glft_config.terminal_penalty)
    /\ RatLt(glft_result.value, Whole(glft_args.mid))

(***************************************************************************)
(* Claims about failure at the library boundary.                           *)
(***************************************************************************)
\* C34: no public operation panics: a read or write of the thread-safe order
\* manager does not panic on the lock, also after a writer has failed, and
\* calculate_skew_adjustment returns a pair of adjustments under every limit,
\* a delta or gamma limit of zero included.
C34_NoPanicAtBoundary ==
    /\ \A t \in LockThreads : access[t] # "panicked on the lock"
    /\ skew_result.kind # "panic"

(***************************************************************************)
(* Further claims about the order manager.                                 *)
(***************************************************************************)
RECURSIVE FillValue(_)
\* the sum of price * quantity over a list of fills, in units of 1 / DecScale
FillValue(fills) ==
    IF fills = << >> THEN 0
    ELSE fills[1].price * DecScale * fills[1].quantity + FillValue(Tail(fills))

\* C35: after any sequence of fills on an order, its average fill price
\* multiplied by its filled quantity equals the sum of price * quantity over
\* its fills, with no rounding error.
C35_VwapRoundTripExact ==
    \A id \in DOMAIN orders :
        orders[id].average_fill_price * orders[id].filled_quantity = FillValue(orders[id].fills)

\* C36: a client id is listed in open_orders_by_symbol[s] if and only if an
\* order with that client id exists, has symbol s and is Pending, Open or
\* PartiallyFilled; no client id is listed more than once.
C36_OpenIndexConsistent ==
    \A symbol \in Symbols :
        /\ \A c \in ClientIds :
              c \in SeqElems(OpenList(Manager, symbol))
                  <=> /\ c \in DOMAIN orders
                      /\ orders[c].symbol = symbol
                      /\ orders[c].status.kind \in NonTerminalKinds
        /\ Cardinality(SeqElems(OpenList(Manager, symbol))) = Len(OpenList(Manager, symbol))

\* C37: every entry of orders_by_exchange_id points to a client id that is in
\* the order map and whose order carries that exchange id.
C37_ExchangeIdMapIntact ==
    \A e \in DOMAIN orders_by_exchange_id :
        /\ orders_by_exchange_id[e] \in DOMAIN orders
        /\ orders[orders_by_exchange_id[e]].order_id = e

\* C38: mark_cancelled on an order that is already Filled, Cancelled or
\* Rejected either returns an error or leaves the order's status, filled
\* quantity and update time as they are.
C38_CancelOfTerminalChangesNothing ==
    \A c \in DOMAIN orders, timestamp \in Times :
        orders[c].status.kind \in TerminalKinds =>
            LET r == mark_cancelled(Manager, c, timestamp)
            IN  r.ok =>
                  /\ r.m.orders[c].status = orders[c].status
                  /\ r.m.orders[c].filled_quantity = orders[c].filled_quantity
                  /\ r.m.orders[c].updated_at = orders[c].updated_at

RECURSIVE RemainingOf(_)
\* the sum of the remaining quantities of a set of client ids
RemainingOf(ids) ==
    IF ids = {} THEN 0
    ELSE LET c == CHOOSE x \in ids : TRUE
         IN  orders[c].remaining_quantity + RemainingOf(ids \ {c})

\* C39: get_open_quantity(symbol, side) is the sum of the remaining
\* quantities of the orders of that symbol and side that are Pending, Open or
\* PartiallyFilled.
C39_OpenQuantityIsSumOfOpen ==
    \A symbol \in Symbols, side \in {"Buy", "Sell"} :
        get_open_quantity(Manager, symbol, side)
            = RemainingOf({ c \in OpenOrdersOf(symbol) : orders[c].side = side })

(***************************************************************************)
(* A further claim about the backtest engine.                              *)
(***************************************************************************)
\* C40: the num_trades of a returned result is the number of fills the run
\* simulated (each of them was handed to the strategy's on_fill), whatever
\* the recording switches of the configuration are.
C40_NumTradesCountsFills ==
    Returned =>
        results[Len(results)].result.num_trades = Len(engine.strategy.fills_received)

====
